---- MODULE Spec2Model ----
(***************************************************************************)
(* Model of CodeDiffProcessor (frontend/src/utils/codeDiffProcessor.ts):   *)
(* the unified-diff parser, context validator, hunk applier, the apply     *)
(* orchestrator applyCodeDiff and the reference generator generateDiff.    *)
(*                                                                         *)
(* Texts are TLA+ strings, as in the source: a file is one string that is  *)
(* split at "\n", a diff line is a string whose first character decides    *)
(* its kind, a hunk header is matched character by character.              *)
(***************************************************************************)
EXTENDS Integers, Sequences, FiniteSets, TLC

\* ------------------------------------------------------------------------
\* String primitives of the JavaScript runtime used by the source
\* ------------------------------------------------------------------------

\* F(v) with v worked out before F is entered: the statements of a loop run
\* one after the other, each on the values the one before it left
After(v, F(_)) == CHOOSE r \in {F(x) : x \in {v}} : TRUE

\* s.charAt(i-1): the i-th character (1-based) as a one-character string
CharAt(s, i) == SubSeq(s, i, i)

\* s.startsWith(p)
StartsWith(s, p) == Len(s) >= Len(p) /\ SubSeq(s, 1, Len(p)) = p

\* s.substring(1): the string without its first character
Substring1(s) == SubSeq(s, 2, Len(s))

\* s.includes(sub)
Includes(s, sub) ==
  \E i \in 1..(Len(s) - Len(sub) + 1) : SubSeq(s, i, i + Len(sub) - 1) = sub

\* the characters String.prototype.trim and the regex class \s remove/match
\* (of those that can occur inside one line of the modelled inputs)
WhiteSpace == {" ", "\t"}

Digits == {"0", "1", "2", "3", "4", "5", "6", "7", "8", "9"}

\* s.trim()
Trim(s) ==
  LET keep == {i \in 1..Len(s) : CharAt(s, i) \notin WhiteSpace}
  IN  IF keep = {} THEN ""
      ELSE LET lo == CHOOSE i \in keep : \A j \in keep : i <= j
               hi == CHOOSE i \in keep : \A j \in keep : j <= i
           IN  SubSeq(s, lo, hi)

\* the position of the first newline at or after from, Len(s) + 1 if none
LineEnd(s, from) ==
  CHOOSE j \in from..(Len(s) + 1) :
    /\ \A k \in from..(j - 1) : CharAt(s, k) # "\n"
    /\ (j <= Len(s) => CharAt(s, j) = "\n")

\* the position of the last newline within lo..(before - 1), lo - 1 if none
LineStart(s, lo, before) ==
  CHOOSE j \in (lo - 1)..(before - 1) :
    /\ \A k \in (j + 1)..(before - 1) : CharAt(s, k) # "\n"
    /\ (j >= lo => CharAt(s, j) = "\n")

\* s.split('\n') on the part lo..hi of s: the pieces between consecutive
\* newlines, always at least one. The part is cut at a newline e near its
\* middle and the pieces left and right of it are put together.
RECURSIVE SplitRange(_, _, _)

SplitAround(s, lo, hi, e) ==
  IF e < lo \/ e > hi THEN <<SubSeq(s, lo, hi)>>
  ELSE SplitRange(s, lo, e - 1) \o SplitRange(s, e + 1, hi)

SplitNear(s, lo, hi, mid, e) ==
  IF e <= hi THEN SplitAround(s, lo, hi, e)
  ELSE After(LineStart(s, lo, mid), LAMBDA b : SplitAround(s, lo, hi, b))

SplitRange(s, lo, hi) ==
  IF lo > hi THEN <<"">>
  ELSE After(LineEnd(s, (lo + hi) \div 2),
             LAMBDA e : SplitNear(s, lo, hi, (lo + hi) \div 2, e))

Split(s) == SplitRange(s, 1, Len(s))

\* lines.join('\n')
RECURSIVE Join(_)
Join(lines) ==
  IF Len(lines) = 0 THEN ""
  ELSE IF Len(lines) = 1 THEN lines[1]
       ELSE After(SubSeq(lines, 1, Len(lines) \div 2), LAMBDA first : Join(first))
            \o "\n"
            \o After(SubSeq(lines, Len(lines) \div 2 + 1, Len(lines)),
                     LAMBDA rest : Join(rest))

\* parseInt on a string of decimal digits
DigitVal(c) ==
  CASE c = "0" -> 0 [] c = "1" -> 1 [] c = "2" -> 2 [] c = "3" -> 3
    [] c = "4" -> 4 [] c = "5" -> 5 [] c = "6" -> 6 [] c = "7" -> 7
    [] c = "8" -> 8 [] c = "9" -> 9

RECURSIVE ParseInt(_)
ParseInt(d) ==
  IF Len(d) = 0 THEN 0
  ELSE 10 * ParseInt(SubSeq(d, 1, Len(d) - 1)) + DigitVal(CharAt(d, Len(d)))

\* Math.max, Math.min
Max(a, b) == IF a >= b THEN a ELSE b
Min(a, b) == IF a <= b THEN a ELSE b

\* Array.prototype.splice(at, 1) and splice(at, 0, x) on a 0-based index
SpliceOut(lines, at) ==
  SubSeq(lines, 1, at) \o SubSeq(lines, at + 2, Len(lines))

SpliceIn(lines, at, x) ==
  LET k == Min(at, Len(lines))
  IN  SubSeq(lines, 1, k) \o <<x>> \o SubSeq(lines, k + 1, Len(lines))

\* ------------------------------------------------------------------------
\* Program constants
\* ------------------------------------------------------------------------

MAX_CONTEXT_LINES == 3
MAX_HUNK_SIZE == 100

\* ------------------------------------------------------------------------
\* parseHunk: the header regex
\*   /^@@\s+-?(\d+)(?:,(\d+))?\s+\+?(\d+)(?:,(\d+))?\s+@@/
\* matched left to right; no two adjacent pieces can match the same
\* character, so the greedy match is the only one.
\* ------------------------------------------------------------------------

\* the first position at or after i whose character is not in class
SkipClass(s, i, class) ==
  CHOOSE j \in i..(Len(s) + 1) :
    /\ \A k \in i..(j - 1) : CharAt(s, k) \in class
    /\ (j <= Len(s) => CharAt(s, j) \notin class)

\* an optional single character c at position i
SkipOpt(s, i, c) == IF i <= Len(s) /\ CharAt(s, i) = c THEN i + 1 ELSE i

\* (?:,(\d+))? at position k: the position after it (k when the group
\* takes no part in the match)
CountEnd(s, k) ==
  IF k + 1 <= Len(s) /\ CharAt(s, k) = "," /\ CharAt(s, k + 1) \in Digits
  THEN SkipClass(s, k + 1, Digits)
  ELSE k

\* (\d+)(?:,(\d+))? matched at i, the digits ending before k, the whole
\* before m: [ok, num, cnt, next]; cnt = "" stands for an undefined group
RangeCaptures(s, i, k, m) ==
  [ok |-> k > i,
   num |-> SubSeq(s, i, k - 1),
   cnt |-> SubSeq(s, k + 1, m - 1),
   next |-> m]

MatchRangeTo(s, i, k) ==
  After(CountEnd(s, k), LAMBDA m : RangeCaptures(s, i, k, m))

MatchRange(s, i) ==
  After(SkipClass(s, i, Digits), LAMBDA k : MatchRangeTo(s, i, k))

NoMatch == [ok |-> FALSE]

\* ... \s+@@ with the white space running from r2.next to before c
MatchClose(h, r1, r2, c) ==
  IF c > r2.next /\ SubSeq(h, c, c + 1) = "@@"
  THEN [ok |-> TRUE, g1 |-> r1.num, g2 |-> r1.cnt, g3 |-> r2.num, g4 |-> r2.cnt]
  ELSE NoMatch

\* ... \+?(\d+)(?:,(\d+))? matched as r2
MatchNewRange(h, r1, r2) ==
  IF r2.ok
  THEN After(SkipClass(h, r2.next, WhiteSpace), LAMBDA c : MatchClose(h, r1, r2, c))
  ELSE NoMatch

\* ... \s+ with the white space running from r1.next to before b
MatchGap(h, r1, b) ==
  IF b > r1.next
  THEN After(MatchRange(h, SkipOpt(h, b, "+")), LAMBDA r2 : MatchNewRange(h, r1, r2))
  ELSE NoMatch

\* ... -?(\d+)(?:,(\d+))? matched as r1
MatchOldRange(h, r1) ==
  IF r1.ok
  THEN After(SkipClass(h, r1.next, WhiteSpace), LAMBDA b : MatchGap(h, r1, b))
  ELSE NoMatch

\* ^@@\s+ with the white space running from 3 to before a
MatchOpen(h, a) ==
  IF a > 3
  THEN After(MatchRange(h, SkipOpt(h, a, "-")), LAMBDA r1 : MatchOldRange(h, r1))
  ELSE NoMatch

\* hunkHeader.match(...): [ok, g1, g2, g3, g4], the four capture groups
MatchHeader(h) ==
  IF StartsWith(h, "@@")
  THEN After(SkipClass(h, 3, WhiteSpace), LAMBDA a : MatchOpen(h, a))
  ELSE NoMatch

\* ------------------------------------------------------------------------
\* parseHunk: one body line becomes a DiffLine
\* ------------------------------------------------------------------------

\* mutant: the first character is cut off every line, prefix or not
ParseDiffLineCutsAll(line) ==
  IF line = "" \/ (~StartsWith(line, " ") /\ ~StartsWith(line, "-") /\ ~StartsWith(line, "+"))
  THEN [type |-> "context", content |-> Substring1(line)]
  ELSE LET prefix == CharAt(line, 1)
           content == Substring1(line)
       IN  CASE prefix = " " -> [type |-> "context", content |-> content]
             [] prefix = "-" -> [type |-> "remove", content |-> content]
             [] prefix = "+" -> [type |-> "add", content |-> content]
             [] OTHER -> [type |-> "context", content |-> line]

ParseDiffLine(line) ==
  IF line = "" \/ (~StartsWith(line, " ") /\ ~StartsWith(line, "-") /\ ~StartsWith(line, "+"))
  THEN [type |-> "context", content |-> line]
  ELSE LET prefix == CharAt(line, 1)
           content == Substring1(line)
       IN  CASE prefix = " " -> [type |-> "context", content |-> content]
             [] prefix = "-" -> [type |-> "remove", content |-> content]
             [] prefix = "+" -> [type |-> "add", content |-> content]
             [] OTHER -> [type |-> "context", content |-> line]

\* the line ends the body of the hunk being read
IsBodyEnd(line) ==
  StartsWith(line, "@@") \/ StartsWith(line, "---") \/ StartsWith(line, "+++")

\* the while loop of parseHunk from the source's 0-based index i (lines is
\* 1-based here). It leaves at the first index that is the end of the input,
\* or follows expectedLines body lines, or holds a line that ends the body.
ParseBodyStop(lines, i, expectedLines) ==
  CHOOSE j \in i..Len(lines) :
    /\ \/ j = Len(lines)
       \/ j - i >= expectedLines
       \/ IsBodyEnd(lines[j + 1])
    /\ \A k \in i..(j - 1) : k - i < expectedLines /\ ~IsBodyEnd(lines[k + 1])

\* every line before that index was pushed as a DiffLine: [hunkLines, nextIndex]
ParseBodyTo(lines, i, stop) ==
  [hunkLines |-> [k \in 1..(stop - i) |-> ParseDiffLine(lines[i + k])],
   nextIndex |-> stop]

ParseBody(lines, i, expectedLines) ==
  ParseBodyTo(lines, i, ParseBodyStop(lines, i, expectedLines))

\* parseHunk after the size check: lines 231-296
ParseHunkBody(oldStart, oldLines, newStart, newLines, body) ==
  [success |-> TRUE,
   hunk |-> [oldStart |-> oldStart, oldLines |-> oldLines,
             newStart |-> newStart, newLines |-> newLines,
             lines |-> body.hunkLines],
   nextIndex |-> body.nextIndex]

\* parseHunk from the size check on: lines 223-235
ParseHunkSized(lines, startIndex, oldStart, oldLines, newStart, newLines) ==
  IF oldLines > MAX_HUNK_SIZE \/ newLines > MAX_HUNK_SIZE
  THEN [success |-> FALSE,
        error |-> "Hunk too large (" \o ToString(Max(oldLines, newLines))
                  \o " lines, max " \o ToString(MAX_HUNK_SIZE) \o ")"]
  ELSE After(ParseBody(lines, startIndex + 1, Max(oldLines, newLines) + 10),
             LAMBDA body : ParseHunkBody(oldStart, oldLines, newStart, newLines, body))

\* mutant: a count of 0 is taken for an absent one
ParseHunkMatchedZeroAbsent(lines, startIndex, hunkHeader, headerMatch) ==
  IF ~headerMatch.ok
  THEN [success |-> FALSE,
        error |-> "Invalid hunk header format: " \o hunkHeader]
  ELSE ParseHunkSized(lines, startIndex,
         ParseInt(headerMatch.g1),
         IF headerMatch.g2 # "" /\ ParseInt(headerMatch.g2) # 0
         THEN ParseInt(headerMatch.g2) ELSE 1,
         ParseInt(headerMatch.g3),
         IF headerMatch.g4 # "" /\ ParseInt(headerMatch.g4) # 0
         THEN ParseInt(headerMatch.g4) ELSE 1)

\* parseHunk once the header is matched: lines 211-221
ParseHunkMatched(lines, startIndex, hunkHeader, headerMatch) ==
  IF ~headerMatch.ok
  THEN [success |-> FALSE,
        error |-> "Invalid hunk header format: " \o hunkHeader]
  ELSE ParseHunkSized(lines, startIndex,
         ParseInt(headerMatch.g1),
         IF headerMatch.g2 # "" THEN ParseInt(headerMatch.g2) ELSE 1,
         ParseInt(headerMatch.g3),
         IF headerMatch.g4 # "" THEN ParseInt(headerMatch.g4) ELSE 1)

\* parseHunk(lines, startIndex), startIndex 0-based
parseHunk(lines, startIndex) ==
  After(MatchHeader(lines[startIndex + 1]),
        LAMBDA headerMatch :
          ParseHunkMatched(lines, startIndex, lines[startIndex + 1], headerMatch))

\* ------------------------------------------------------------------------
\* parseDiff
\* ------------------------------------------------------------------------

\* the first 0-based index at or after i whose line starts with "---", "+++"
\* or "@@", Len(lines) if there is none: where the scanning loop of
\* parseDiff is after it stepped over the lines that start with none of them
NextMarked(lines, i) ==
  CHOOSE j \in i..Len(lines) :
    /\ j < Len(lines) => IsBodyEnd(lines[j + 1])
    /\ \A k \in i..(j - 1) : ~IsBodyEnd(lines[k + 1])

\* the scanning loop of parseDiff from 0-based index i with hunks collected;
\* ParseDiffHunk is its branch for a line that starts with "@@"
RECURSIVE ParseDiffFrom(_, _, _)
RECURSIVE ParseDiffHunk(_, _, _, _)

\* mutant: a header parseHunk rejects is skipped and the scan goes on
ParseDiffHunkSkips(lines, i, hunks, hunkResult) ==
  IF hunkResult.success
  THEN ParseDiffFrom(lines, hunkResult.nextIndex, Append(hunks, hunkResult.hunk))
  ELSE ParseDiffFrom(lines, i + 1, hunks)

ParseDiffHunk(lines, i, hunks, hunkResult) ==
  IF hunkResult.success
  THEN After(Append(hunks, hunkResult.hunk),
             LAMBDA pushed : ParseDiffFrom(lines, hunkResult.nextIndex, pushed))
  ELSE [success |-> FALSE,
        error |-> "Invalid hunk at line " \o ToString(i + 1)
                  \o ": " \o hunkResult.error]

ParseDiffFrom(lines, i, hunks) ==
  IF i >= Len(lines) THEN [success |-> TRUE, hunks |-> hunks]
  ELSE IF StartsWith(lines[i + 1], "---") \/ StartsWith(lines[i + 1], "+++")
       THEN ParseDiffFrom(lines, i + 1, hunks)
       ELSE IF StartsWith(lines[i + 1], "@@")
            THEN After(parseHunk(lines, i),
                       LAMBDA hunkResult : ParseDiffHunk(lines, i, hunks, hunkResult))
            ELSE After(NextMarked(lines, i + 1),
                       LAMBDA next : ParseDiffFrom(lines, next, hunks))

parseDiff(diffString) ==
  After(Split(diffString), LAMBDA lines : ParseDiffFrom(lines, 0, <<>>))

\* ------------------------------------------------------------------------
\* validateHunkContext
\* ------------------------------------------------------------------------

\* hunk.lines.filter(line => line.type === 'context' || line.type === 'remove')
ContextLines(hunkLines) ==
  SelectSeq(hunkLines, LAMBDA l : l.type = "context" \/ l.type = "remove")

\* mutant: the line number reported is the 0-based index
ValidateEntryZeroBased(originalLines, diffLine, originalIndex) ==
  IF originalIndex >= Len(originalLines)
  THEN [success |-> FALSE, error |-> "Hunk extends beyond end of file"]
  ELSE IF Trim(originalLines[originalIndex + 1]) # Trim(diffLine.content)
       THEN [success |-> FALSE,
             error |-> "Line " \o ToString(originalIndex)
                       \o " doesn't match expected content. Expected: \""
                       \o Trim(diffLine.content) \o "\", Got: \""
                       \o Trim(originalLines[originalIndex + 1]) \o "\""]
       ELSE [success |-> TRUE]

\* mutant: context running past the end of the buffer is let through
ValidateEntryTolerant(originalLines, diffLine, originalIndex) ==
  IF originalIndex >= Len(originalLines)
  THEN [success |-> TRUE]
  ELSE IF Trim(originalLines[originalIndex + 1]) # Trim(diffLine.content)
       THEN [success |-> FALSE,
             error |-> "Line " \o ToString(originalIndex + 1)
                       \o " doesn't match expected content. Expected: \""
                       \o Trim(diffLine.content) \o "\", Got: \""
                       \o Trim(originalLines[originalIndex + 1]) \o "\""]
       ELSE [success |-> TRUE]

\* one iteration of the for loop of validateHunkContext, for the entry
\* diffLine that is matched with the source's 0-based originalIndex: the
\* failure it returns with, or success when the loop goes on
ValidateEntry(originalLines, diffLine, originalIndex) ==
  IF originalIndex >= Len(originalLines)
  THEN [success |-> FALSE, error |-> "Hunk extends beyond end of file"]
  ELSE IF Trim(originalLines[originalIndex + 1]) # Trim(diffLine.content)
       THEN [success |-> FALSE,
             error |-> "Line " \o ToString(originalIndex + 1)
                       \o " doesn't match expected content. Expected: \""
                       \o Trim(diffLine.content) \o "\", Got: \""
                       \o Trim(originalLines[originalIndex + 1]) \o "\""]
       ELSE [success |-> TRUE]

\* the loop returns with the first failure: that of the entries run first
\* if there is one, else that of the entries run after them
FirstFailure(first, rest) == IF first.success THEN rest ELSE first

\* the for loop over the entries lo..hi (1-based) of contextLines in their
\* order, entry k matched with index startIndex + k - 1: the first half of
\* the entries, and the rest if the loop is still running after it
RECURSIVE ValidateFrom(_, _, _, _, _)
ValidateFrom(originalLines, contextLines, lo, hi, startIndex) ==
  IF lo > hi THEN [success |-> TRUE]
  ELSE IF lo = hi
       THEN ValidateEntry(originalLines, contextLines[lo], startIndex + lo - 1)
       ELSE FirstFailure(
              ValidateFrom(originalLines, contextLines, lo, (lo + hi) \div 2, startIndex),
              ValidateFrom(originalLines, contextLines, (lo + hi) \div 2 + 1, hi, startIndex))

\* mutant: only the first context or remove line is compared
ValidateFilteredFirstOnly(originalLines, contextLines, startIndex) ==
  ValidateFrom(originalLines, contextLines, 1, Min(1, Len(contextLines)), startIndex)

\* validateHunkContext once the lines are filtered: lines 395-418
ValidateFiltered(originalLines, contextLines, startIndex) ==
  ValidateFrom(originalLines, contextLines, 1, Len(contextLines), startIndex)

validateHunkContext(originalLines, hunk, startIndex) ==
  ValidateFiltered(originalLines, ContextLines(hunk.lines), startIndex)

\* ------------------------------------------------------------------------
\* applyHunk
\* ------------------------------------------------------------------------

\* mutant: a removed line is not counted in the delta
ApplyLineRemoveUncounted(st, diffLine, originalLen) ==
  CASE diffLine.type = "context" ->
         IF st.originalIndex < originalLen
         THEN [st EXCEPT !.originalIndex = @ + 1]
         ELSE st
    [] diffLine.type = "remove" ->
         IF st.originalIndex < Len(st.resultLines)
         THEN [st EXCEPT !.resultLines = SpliceOut(@, st.originalIndex)]
         ELSE st
    [] diffLine.type = "add" ->
         [st EXCEPT !.resultLines = SpliceIn(@, st.originalIndex, diffLine.content),
                    !.linesDelta = @ + 1,
                    !.originalIndex = @ + 1]

\* mutant: the working buffer is the array that was given, not a copy of it
ApplyLineOnGiven(st, diffLine, originalLen) ==
  CASE diffLine.type = "context" ->
         IF st.originalIndex < originalLen
         THEN [st EXCEPT !.originalIndex = @ + 1]
         ELSE st
    [] diffLine.type = "remove" ->
         IF st.originalIndex < Len(st.resultLines)
         THEN [st EXCEPT !.resultLines = SpliceOut(@, st.originalIndex),
                         !.originalLines = SpliceOut(@, st.originalIndex),
                         !.linesDelta = @ - 1]
         ELSE st
    [] diffLine.type = "add" ->
         [st EXCEPT !.resultLines = SpliceIn(@, st.originalIndex, diffLine.content),
                    !.originalLines = SpliceIn(@, st.originalIndex, diffLine.content),
                    !.linesDelta = @ + 1,
                    !.originalIndex = @ + 1]

\* one iteration of the while loop of applyHunk on the working state
\* [originalLines, resultLines, originalIndex, linesDelta]: originalLines
\* is the array applyHunk was given and resultLines the copy of it that
\* line 316 makes, the only one the loop splices; originalLen is
\* originalLines.length, which the loop therefore never changes
ApplyLine(st, diffLine, originalLen) ==
  CASE diffLine.type = "context" ->
         IF st.originalIndex < originalLen
         THEN [st EXCEPT !.originalIndex = @ + 1]
         ELSE st
    [] diffLine.type = "remove" ->
         IF st.originalIndex < Len(st.resultLines)
         THEN [st EXCEPT !.resultLines = SpliceOut(@, st.originalIndex),
                         !.linesDelta = @ - 1]
         ELSE st
    [] diffLine.type = "add" ->
         [st EXCEPT !.resultLines = SpliceIn(@, st.originalIndex, diffLine.content),
                    !.linesDelta = @ + 1,
                    !.originalIndex = @ + 1]

\* one pass through the body of the while loop: the switch on the line at
\* hunkIndex, then hunkIndex++ (line 368)
ApplyStep(st, diffLine, originalLen) ==
  [ApplyLine(st, diffLine, originalLen) EXCEPT !.hunkIndex = @ + 1]

\* the while loop over the hunk lines lo..hi (1-based) in their order: the
\* first half of them, then the rest from the state the first half leaves
RECURSIVE ApplyLinesFrom(_, _, _, _, _)
ApplyLinesFrom(st, hunkLines, lo, hi, originalLen) ==
  IF lo > hi THEN st
  ELSE IF lo = hi THEN ApplyStep(st, hunkLines[lo], originalLen)
       ELSE After(ApplyLinesFrom(st, hunkLines, lo, (lo + hi) \div 2, originalLen),
                  LAMBDA half :
                    ApplyLinesFrom(half, hunkLines, (lo + hi) \div 2 + 1, hi, originalLen))

\* applyHunk after the walk: lines 371-375
ApplyHunkWalked(fin) ==
  [success |-> TRUE, newLines |-> fin.resultLines, lineOffset |-> fin.linesDelta]

\* applyHunk once the context is validated: lines 329-375
ApplyHunkValidated(originalLines, hunk, adjustedOldStart, contextValidation) ==
  IF ~contextValidation.success
  THEN [success |-> FALSE,
        error |-> "Context validation failed: " \o contextValidation.error]
  ELSE ApplyHunkWalked(
         ApplyLinesFrom([originalLines |-> originalLines,
                         resultLines |-> originalLines,
                         originalIndex |-> adjustedOldStart,
                         hunkIndex |-> 0,
                         linesDelta |-> 0],
                        hunk.lines, 1, Len(hunk.lines), Len(originalLines)))

\* mutant: a hunk placed outside the buffer is skipped, not refused
ApplyHunkAtSkipsOutside(originalLines, hunk, adjustedOldStart) ==
  IF adjustedOldStart < 0 \/ adjustedOldStart >= Len(originalLines)
  THEN [success |-> TRUE, newLines |-> originalLines, lineOffset |-> 0]
  ELSE ApplyHunkValidated(originalLines, hunk, adjustedOldStart,
         validateHunkContext(originalLines, hunk, adjustedOldStart))

\* mutant: the upper bound is off by one
ApplyHunkAtOffByOne(originalLines, hunk, adjustedOldStart) ==
  IF adjustedOldStart < 0 \/ adjustedOldStart > Len(originalLines)
  THEN [success |-> FALSE,
        error |-> "Hunk start line " \o ToString(adjustedOldStart + 1)
                  \o " is outside file bounds (1-" \o ToString(Len(originalLines)) \o ")"]
  ELSE ApplyHunkValidated(originalLines, hunk, adjustedOldStart,
         validateHunkContext(originalLines, hunk, adjustedOldStart))

\* applyHunk from the bounds check on: lines 320-375
ApplyHunkAt(originalLines, hunk, adjustedOldStart) ==
  IF adjustedOldStart < 0 \/ adjustedOldStart >= Len(originalLines)
  THEN [success |-> FALSE,
        error |-> "Hunk start line " \o ToString(adjustedOldStart + 1)
                  \o " is outside file bounds (1-" \o ToString(Len(originalLines)) \o ")"]
  ELSE ApplyHunkValidated(originalLines, hunk, adjustedOldStart,
         validateHunkContext(originalLines, hunk, adjustedOldStart))

\* applyHunk(originalLines, hunk, currentOffset)
applyHunk(originalLines, hunk, currentOffset) ==
  ApplyHunkAt(originalLines, hunk, hunk.oldStart + currentOffset - 1)

\* ------------------------------------------------------------------------
\* generateDiff
\* ------------------------------------------------------------------------

\* lines[i] for a 0-based i that may be past the end: <<>> is undefined,
\* <<s>> the string s
At(lines, i) == IF i < Len(lines) THEN <<lines[i + 1]>> ELSE <<>>

\* v || '' for v a string or undefined
OrEmpty(v) == IF v = <<>> THEN "" ELSE v[1]

\* the body lines generateDiff emits for index i
GenLine(originalLines, newLines, i) ==
  LET oldLine == At(originalLines, i)
      newLine == At(newLines, i)
  IN  IF oldLine = newLine
      THEN " " \o OrEmpty(oldLine) \o "\n"
      ELSE (IF oldLine # <<>> THEN "-" \o oldLine[1] \o "\n" ELSE "")
           \o (IF newLine # <<>> THEN "+" \o newLine[1] \o "\n" ELSE "")

RECURSIVE GenBody(_, _, _, _)
GenBody(originalLines, newLines, i, contextEnd) ==
  IF i > contextEnd THEN ""
  ELSE GenLine(originalLines, newLines, i)
       \o GenBody(originalLines, newLines, i + 1, contextEnd)

generateDiff(originalContent, newContent, filePath) ==
  LET originalLines == Split(originalContent)
      newLines == Split(newContent)
      header == "--- a/" \o filePath \o "\n" \o "+++ b/" \o filePath \o "\n"
      maxLines == Max(Len(originalLines), Len(newLines))
      changed == {i \in 0..(maxLines - 1) :
                    OrEmpty(At(originalLines, i)) # OrEmpty(At(newLines, i))}
  IN  IF changed = {} THEN header
      ELSE LET changeStart == CHOOSE i \in changed : \A j \in changed : i <= j
               changeEnd == CHOOSE i \in changed : \A j \in changed : j <= i
               contextStart == Max(0, changeStart - MAX_CONTEXT_LINES)
               contextEnd == Min(maxLines - 1, changeEnd + MAX_CONTEXT_LINES)
               oldCount == contextEnd - contextStart + 1
               newCount == contextEnd - contextStart + 1
           IN  header
               \o "@@ -" \o ToString(contextStart + 1) \o "," \o ToString(oldCount)
               \o " +" \o ToString(contextStart + 1) \o "," \o ToString(newCount)
               \o " @@\n"
               \o GenBody(originalLines, newLines, contextStart, contextEnd)

\* ------------------------------------------------------------------------
\* validateDiffSafety
\* ------------------------------------------------------------------------

\* the thresholds of a large diff: hunks, and added plus removed lines
LargeHunks == 5
LargeChanges == 50

\* the counting branch of the loop body on the working state
\* [addedLines, removedLines, totalHunks, issues, level]: lines 504-510
CountLine(st, line) ==
  IF StartsWith(line, "@@")
  THEN [st EXCEPT !.totalHunks = @ + 1]
  ELSE IF StartsWith(line, "+") /\ ~StartsWith(line, "+++")
       THEN [st EXCEPT !.addedLines = @ + 1]
       ELSE IF StartsWith(line, "-") /\ ~StartsWith(line, "---")
            THEN [st EXCEPT !.removedLines = @ + 1]
            ELSE st

\* lines 513-516
FlagExecution(st, line) ==
  IF Includes(line, "eval(") \/ Includes(line, "exec(")
  THEN [st EXCEPT !.issues = Append(@, "Contains potentially dangerous code execution"),
                  !.level = "review"]
  ELSE st

\* lines 518-521
FlagDestruction(st, line) ==
  IF Includes(line, "rm -rf") \/ Includes(line, "DELETE FROM")
  THEN [st EXCEPT !.issues = Append(@, "Contains potentially destructive operations"),
                  !.level = "review"]
  ELSE st

\* one iteration of the loop over the lines
SafetyLine(st, line) == FlagDestruction(FlagExecution(CountLine(st, line), line), line)

\* the loop over the lines lo..hi (1-based) in their order: the first half
\* of them, then the rest from the state the first half leaves
RECURSIVE SafetyScan(_, _, _, _)
SafetyScan(st, lines, lo, hi) ==
  IF lo > hi THEN st
  ELSE IF lo = hi THEN SafetyLine(st, lines[lo])
       ELSE After(SafetyScan(st, lines, lo, (lo + hi) \div 2),
                  LAMBDA half : SafetyScan(half, lines, (lo + hi) \div 2 + 1, hi))

\* mutant: a large diff is at level caution, whatever the scan found
SafetySizedLowers(st) ==
  IF st.totalHunks > LargeHunks \/ st.addedLines + st.removedLines > LargeChanges
  THEN [st EXCEPT !.issues = Append(@, "Large diff - consider manual review"),
                  !.level = "caution"]
  ELSE st

\* mutant: a diff at a threshold is large already
SafetySizedInclusive(st) ==
  IF st.totalHunks >= LargeHunks \/ st.addedLines + st.removedLines >= LargeChanges
  THEN [st EXCEPT !.issues = Append(@, "Large diff - consider manual review"),
                  !.level = IF @ = "safe" THEN "caution" ELSE @]
  ELSE st

\* mutant: the size issue is put ahead of the others
SafetySizedFirst(st) ==
  IF st.totalHunks > LargeHunks \/ st.addedLines + st.removedLines > LargeChanges
  THEN [st EXCEPT !.issues = <<"Large diff - consider manual review">> \o @,
                  !.level = IF @ = "safe" THEN "caution" ELSE @]
  ELSE st

\* the size check after the loop: lines 524-528
SafetySized(st) ==
  IF st.totalHunks > LargeHunks \/ st.addedLines + st.removedLines > LargeChanges
  THEN [st EXCEPT !.issues = Append(@, "Large diff - consider manual review"),
                  !.level = IF @ = "safe" THEN "caution" ELSE @]
  ELSE st

\* mutant: the flag is set at level safe only
SafetyReturnOnlySafe(st) ==
  [safe |-> st.level = "safe", level |-> st.level, issues |-> st.issues]

\* the value returned: lines 530-534
SafetyReturn(st) ==
  [safe |-> st.level # "review", level |-> st.level, issues |-> st.issues]

\* validateDiffSafety once the text is split: lines 499-534
SafetyOfLines(lines) ==
  SafetyReturn(SafetySized(SafetyScan(
    [addedLines |-> 0, removedLines |-> 0, totalHunks |-> 0,
     issues |-> <<>>, level |-> "safe"],
    lines, 1, Len(lines))))

validateDiffSafety(diff) == SafetyOfLines(Split(diff))

\* ------------------------------------------------------------------------
\* Bounds of the model and the inputs drawn within them
\* ------------------------------------------------------------------------

\* most lines of an original text handed to applyCodeDiff with a given diff
MaxOrigLines == 2
\* most lines of a diff text handed to applyCodeDiff
MaxDiffLines == 3
\* most lines of a text handed to generateDiff
MaxGenLines == 5
\* most lines one contiguous edit deletes, and most it inserts
MaxEdit == 1

\* all sequences of 1..n elements of S
RECURSIVE SeqsUpTo(_, _)
SeqsUpTo(S, n) ==
  IF n = 0 THEN {}
  ELSE LET shorter == SeqsUpTo(S, n - 1)
       IN  {<<e>> : e \in S} \cup shorter \cup {Append(q, e) : q \in shorter, e \in S}

\* all sequences of 0..n elements of S
RunsUpTo(S, n) == {<<>>} \cup SeqsUpTo(S, n)

\* lines of an original text: two contents and a whitespace variant of one
OrigLinePool == {"a", "b", " a"}

\* lines of a diff text: well-formed headers with and without counts, a
\* header that violates the grammar, body lines of each kind, and the
\* empty line a trailing newline leaves
DiffLinePool ==
  {"@@ -1,1 +1,1 @@", "@@ -2 +2 @@", "@@ -1 @@", " a", "-a", "+b", ""}

OrigTexts == {Join(q) : q \in SeqsUpTo(OrigLinePool, MaxOrigLines)}
DiffTexts == {Join(q) : q \in SeqsUpTo(DiffLinePool, MaxDiffLines)}

\* lines of the texts handed to generateDiff, and of the runs an edit inserts
GenLinePool == {"a", ""}
EditLinePool == {"b", ""}

GenTexts == {Join(q) : q \in SeqsUpTo(GenLinePool, MaxGenLines)}

\* the path generateDiff is called with
FilePath == "f"

\* most body lines of a diff that is one header and a mix of body lines
MaxBodyLines == 3
\* most lines by which a long run exceeds a limit of the parser
MaxOver == 1

\* n copies of x
Repeat(x, n) == [i \in 1..n |-> x]

\* diffs of one hunk at line 1 whose body mixes the three kinds of line
\* and a line without a prefix
BodyLinePool == {" a", "-a", "+b", "a"}
MixedDiffTexts ==
  {Join(<<"@@ -1,1 +1,1 @@">> \o b) : b \in SeqsUpTo(BodyLinePool, MaxBodyLines)}

\* most body lines of each hunk of a diff of two hunks
MaxPerHunk == 1

\* diffs of two hunks, at lines 1 and 2, each with a body of any kinds
TwoHunkTexts ==
  {Join(<<"@@ -1,1 +1,1 @@">> \o b1 \o <<"@@ -2 +2 @@">> \o b2) :
     b1 \in RunsUpTo(BodyLinePool, MaxPerHunk), b2 \in RunsUpTo(BodyLinePool, MaxPerHunk)}

\* diffs of one hunk whose body is followed by a line that ends it (a file
\* header of either kind, or the header of a second hunk) and a line more
BodyEndPool == {"--- a/f", "+++ b/f", "---", "@@ -2 +2 @@"}
MarkedDiffTexts ==
  {Join(<<"@@ -1,1 +1,1 @@", " a", e, "+b">>) : e \in BodyEndPool}

\* lengths of long runs: at and over the fewest body lines parseHunk reads
\* before it can stop (1 + 10), at and over MAX_HUNK_SIZE
RunLengths == {k + e : k \in {11, MAX_HUNK_SIZE}, e \in 0..MaxOver}

\* headers whose declared counts are the default, the most the size guard
\* accepts, and over it on the old and on the new side, and one with an
\* explicit count of 0 and starts that differ
SizeHeaders ==
  {"@@ -1 +1 @@", "@@ -1,100 +1,100 @@", "@@ -1,101 +1 @@", "@@ -1,1 +1,101 @@",
   "@@ -2,0 +3 @@"}

\* long texts, and diffs of one hunk with a long body of one kind of line
LongTexts == {Join(Repeat("a", n)) : n \in RunLengths}
LongDiffTexts ==
  {Join(<<h>> \o Repeat(l, n)) : h \in SizeHeaders, l \in {" a", "-a"}, n \in RunLengths}

\* the diffs a caller hands to applyCodeDiff together with the text t
DiffsFor(t) ==
  (IF t \in OrigTexts THEN DiffTexts \cup MixedDiffTexts \cup TwoHunkTexts \cup MarkedDiffTexts ELSE {})
    \cup (IF t \in LongTexts THEN LongDiffTexts ELSE {})

\* lines with the d lines from 0-based index i on replaced by the run r
EditLines(lines, i, d, r) ==
  SubSeq(lines, 1, i) \o r \o SubSeq(lines, i + d + 1, Len(lines))

\* most lines with a pattern of the denylist, or close to one, in a diff
MaxDanger == 2

\* lines of each kind that hold a denylisted substring, one that holds two,
\* and lines that come close to one
ReviewLinePool ==
  {"+eval(x)", "-exec(x)", " rm -rf /", "@@ DELETE FROM t", "--- eval(1); rm -rf",
   "+evaluate", " delete from t"}

\* numbers of hunk headers: one, and at and over the threshold
HeaderRuns == {1} \cup {LargeHunks + e : e \in 0..MaxOver}

\* numbers <<added, removed>> of changed lines: none, and at and over the
\* threshold in all, on one side or spread over both
ChangeRuns ==
  {<<0, 0>>} \cup
  UNION {{<<0, n>>, <<n \div 2, n - n \div 2>>, <<n, 0>>} :
           n \in {LargeChanges + e : e \in 0..MaxOver}}

\* the diffs handed to validateDiffSafety
SafetyTexts ==
  {Join(Repeat("@@ -1 +1 @@", h) \o Repeat("+b", c[1]) \o Repeat("-a", c[2]) \o d) :
     h \in HeaderRuns, c \in ChangeRuns, d \in RunsUpTo(ReviewLinePool, MaxDanger)}

\* ------------------------------------------------------------------------
\* State
\* ------------------------------------------------------------------------

VARIABLES
  originalContent,  \* applyCodeDiff's first argument; generateDiff's too
  newContent,       \* generateDiff's second argument (when it was called)
  diffString,       \* applyCodeDiff's second argument
  diffSource,       \* "none", "generated" (by generateDiff) or "received"
  pc,               \* "idle", "ready", "apply" (inside the hunk loop), "done"
  hunks,            \* parseResult.hunks
  resultLines,      \* the working buffer
  lineOffset,       \* the running delta
  appliedHunks,
  totalHunks,
  warnings,
  result,           \* the DiffResult returned, NoResult before the return
  safety            \* what validateDiffSafety returned, NoResult before

vars == <<originalContent, newContent, diffString, diffSource, pc, hunks,
          resultLines, lineOffset, appliedHunks, totalHunks, warnings, result,
          safety>>

NoResult == [pending |-> TRUE]

\* the state before any call, with one of texts at hand
Start(texts) ==
  /\ originalContent \in texts
  /\ newContent = ""
  /\ diffString = ""
  /\ diffSource = "none"
  /\ pc = "idle"
  /\ hunks = <<>>
  /\ resultLines = <<>>
  /\ lineOffset = 0
  /\ appliedHunks = 0
  /\ totalHunks = 0
  /\ warnings = <<>>
  /\ result = NoResult
  /\ safety = NoResult

Init == Start(OrigTexts \cup GenTexts \cup LongTexts)

\* ------------------------------------------------------------------------
\* The callers: a diff arrives from outside, or generateDiff builds one
\* ------------------------------------------------------------------------

ReceiveDiff ==
  /\ pc = "idle"
  /\ \E d \in DiffsFor(originalContent) : diffString' = d
  /\ diffSource' = "received"
  /\ pc' = "ready"
  /\ UNCHANGED <<safety, originalContent, newContent, hunks, resultLines, lineOffset,
                 appliedHunks, totalHunks, warnings, result>>

\* newContent is originalContent after one contiguous edit
GenerateDiff ==
  /\ pc = "idle"
  /\ originalContent \in GenTexts
  /\ LET lines == Split(originalContent)
     IN  \E i \in 0..Len(lines), d \in 0..MaxEdit, r \in RunsUpTo(EditLinePool, MaxEdit) :
           /\ i + d <= Len(lines)
           /\ Len(lines) - d + Len(r) >= 1
           /\ newContent' = Join(EditLines(lines, i, d, r))
  /\ diffString' = generateDiff(originalContent, newContent', FilePath)
  /\ diffSource' = "generated"
  /\ pc' = "ready"
  /\ UNCHANGED <<safety, originalContent, hunks, resultLines, lineOffset,
                 appliedHunks, totalHunks, warnings, result>>

\* ------------------------------------------------------------------------
\* applyCodeDiff, one action per way through each of its stages
\* ------------------------------------------------------------------------

\* parseDiff failed: lines 65-74
ParseFailedWith(parseResult) ==
  /\ ~parseResult.success
  /\ result' = [success |-> FALSE, error |-> parseResult.error,
                appliedHunks |-> 0, totalHunks |-> 0, warnings |-> <<>>]
  /\ pc' = "done"
  /\ UNCHANGED <<safety, originalContent, newContent, diffString, diffSource, hunks,
                 resultLines, lineOffset, appliedHunks, totalHunks, warnings>>

ParseFailed == pc = "ready" /\ ParseFailedWith(parseDiff(diffString))

\* mutant: a diff without hunks is a change of nothing and succeeds
NoHunksAsNoOp(parseResult) ==
  /\ parseResult.success
  /\ Len(parseResult.hunks) = 0
  /\ hunks' = parseResult.hunks
  /\ totalHunks' = Len(parseResult.hunks)
  /\ result' = [success |-> TRUE, newContent |-> originalContent,
                appliedHunks |-> 0, totalHunks |-> 0, warnings |-> <<>>]
  /\ pc' = "done"
  /\ UNCHANGED <<safety, originalContent, newContent, diffString, diffSource,
                 resultLines, lineOffset, appliedHunks, warnings>>

\* parseDiff found no hunk: lines 76-87
NoHunksWith(parseResult) ==
  /\ parseResult.success
  /\ Len(parseResult.hunks) = 0
  /\ hunks' = parseResult.hunks
  /\ totalHunks' = Len(parseResult.hunks)
  /\ result' = [success |-> FALSE, error |-> "No valid hunks found in diff",
                appliedHunks |-> 0, totalHunks |-> 0, warnings |-> <<>>]
  /\ pc' = "done"
  /\ UNCHANGED <<safety, originalContent, newContent, diffString, diffSource,
                 resultLines, lineOffset, appliedHunks, warnings>>

NoHunks == pc = "ready" /\ NoHunksWith(parseDiff(diffString))

\* parseDiff found hunks; the buffer is set up: lines 76-92
EnterLoopWith(parseResult) ==
  /\ parseResult.success
  /\ Len(parseResult.hunks) > 0
  /\ hunks' = parseResult.hunks
  /\ totalHunks' = Len(parseResult.hunks)
  /\ resultLines' = Split(originalContent)
  /\ lineOffset' = 0
  /\ pc' = "apply"
  /\ UNCHANGED <<safety, originalContent, newContent, diffString, diffSource,
                 appliedHunks, warnings, result>>

EnterLoop == pc = "ready" /\ EnterLoopWith(parseDiff(diffString))

\* mutant: a hunk that applies is neither counted nor kept, and the loop
\* stays at it
HunkAppliedStays(hunkResult) ==
  /\ hunkResult.success
  /\ UNCHANGED vars

\* one iteration of the hunk loop in which applyHunk succeeds: lines 97-102
HunkAppliedWith(hunkResult) ==
  /\ hunkResult.success
  /\ resultLines' = hunkResult.newLines
  /\ lineOffset' = lineOffset + hunkResult.lineOffset
  /\ appliedHunks' = appliedHunks + 1
  /\ UNCHANGED <<safety, originalContent, newContent, diffString, diffSource, pc, hunks,
                 totalHunks, warnings, result>>

HunkApplied ==
  /\ pc = "apply"
  /\ appliedHunks < Len(hunks)
  /\ HunkAppliedWith(applyHunk(resultLines, hunks[appliedHunks + 1], lineOffset))

\* mutant: the failing hunk is counted among the applied ones
HunkFailedCounted(hunkResult) ==
  /\ ~hunkResult.success
  /\ warnings' = Append(warnings, "Hunk " \o ToString(appliedHunks + 1)
                                  \o " failed: " \o hunkResult.error)
  /\ result' = [success |-> FALSE,
                error |-> "Failed to apply hunk " \o ToString(appliedHunks + 1)
                          \o ": " \o hunkResult.error,
                appliedHunks |-> appliedHunks + 1,
                totalHunks |-> totalHunks,
                warnings |-> warnings']
  /\ pc' = "done"
  /\ UNCHANGED <<safety, originalContent, newContent, diffString, diffSource, hunks,
                 resultLines, lineOffset, appliedHunks, totalHunks>>

\* one iteration of the hunk loop in which applyHunk fails: lines 103-114
HunkFailedWith(hunkResult) ==
  /\ ~hunkResult.success
  /\ warnings' = Append(warnings, "Hunk " \o ToString(appliedHunks + 1)
                                  \o " failed: " \o hunkResult.error)
  /\ result' = [success |-> FALSE,
                error |-> "Failed to apply hunk " \o ToString(appliedHunks + 1)
                          \o ": " \o hunkResult.error,
                appliedHunks |-> appliedHunks,
                totalHunks |-> totalHunks,
                warnings |-> warnings']
  /\ pc' = "done"
  /\ UNCHANGED <<safety, originalContent, newContent, diffString, diffSource, hunks,
                 resultLines, lineOffset, appliedHunks, totalHunks>>

HunkFailed ==
  /\ pc = "apply"
  /\ appliedHunks < Len(hunks)
  /\ HunkFailedWith(applyHunk(resultLines, hunks[appliedHunks + 1], lineOffset))

\* mutant: the loop is left with the last hunk still to apply
AllAppliedBeforeLast ==
  /\ pc = "apply"
  /\ appliedHunks + 1 >= Len(hunks)
  /\ result' = [success |-> TRUE, newContent |-> Join(resultLines),
                appliedHunks |-> appliedHunks, totalHunks |-> totalHunks,
                warnings |-> warnings]
  /\ pc' = "done"
  /\ UNCHANGED <<safety, originalContent, newContent, diffString, diffSource, hunks,
                 resultLines, lineOffset, appliedHunks, totalHunks, warnings>>

\* the loop is over: lines 126-132
AllApplied ==
  /\ pc = "apply"
  /\ appliedHunks = Len(hunks)
  /\ result' = [success |-> TRUE, newContent |-> Join(resultLines),
                appliedHunks |-> appliedHunks, totalHunks |-> totalHunks,
                warnings |-> warnings]
  /\ pc' = "done"
  /\ UNCHANGED <<safety, originalContent, newContent, diffString, diffSource, hunks,
                 resultLines, lineOffset, appliedHunks, totalHunks, warnings>>

Next ==
  \/ ReceiveDiff
  \/ GenerateDiff
  \/ ParseFailed
  \/ NoHunks
  \/ EnterLoop
  \/ HunkApplied
  \/ HunkFailed
  \/ AllApplied

Spec == Init /\ [][Next]_vars

\* one call of applyCodeDiff runs to its return: the steps of the call are
\* taken as long as one of them can be
Call == ParseFailed \/ NoHunks \/ EnterLoop \/ HunkApplied \/ HunkFailed \/ AllApplied

\* the texts of the calls whose return is followed: two that take the
\* short diffs, of which one and the empty text also take generated diffs,
\* and a long one that takes the diffs with long bodies
LiveTexts == {"a\na", "b\n a", "", Join(Repeat("a", 11 + MaxOver))}

LiveInit == Start(LiveTexts)

LiveSpec == LiveInit /\ [][Next]_vars /\ WF_vars(Call)

\* ------------------------------------------------------------------------
\* The caller that classifies a diff before it decides what to do with it
\* ------------------------------------------------------------------------

SafetyInit == Start({""})

ReceiveForReview ==
  /\ pc = "idle"
  /\ \E d \in SafetyTexts : diffString' = d
  /\ diffSource' = "received"
  /\ pc' = "ready"
  /\ UNCHANGED <<safety, originalContent, newContent, hunks, resultLines, lineOffset,
                 appliedHunks, totalHunks, warnings, result>>

ValidateDiffSafety ==
  /\ pc = "ready"
  /\ safety' = validateDiffSafety(diffString)
  /\ pc' = "classified"
  /\ UNCHANGED <<originalContent, newContent, diffString, diffSource, hunks,
                 resultLines, lineOffset, appliedHunks, totalHunks, warnings, result>>

SafetyNext == ReceiveForReview \/ ValidateDiffSafety

SafetySpec == SafetyInit /\ [][SafetyNext]_vars

\* ------------------------------------------------------------------------
\* applyCodeDiff as one function of its two arguments
\* ------------------------------------------------------------------------

\* the hunk loop from the iteration for hunk applied + 1 on: lines 95-132;
\* ApplyLoopStep is the iteration once applyHunk has returned
RECURSIVE ApplyLoop(_, _, _, _)

ApplyLoopStep(buffer, offset, parsed, applied, hunkResult) ==
  IF hunkResult.success
  THEN ApplyLoop(hunkResult.newLines, offset + hunkResult.lineOffset, parsed, applied + 1)
  ELSE [success |-> FALSE,
        error |-> "Failed to apply hunk " \o ToString(applied + 1)
                  \o ": " \o hunkResult.error,
        appliedHunks |-> applied,
        totalHunks |-> Len(parsed),
        warnings |-> <<"Hunk " \o ToString(applied + 1)
                       \o " failed: " \o hunkResult.error>>]

ApplyLoop(buffer, offset, parsed, applied) ==
  IF applied = Len(parsed)
  THEN [success |-> TRUE, newContent |-> Join(buffer),
        appliedHunks |-> applied, totalHunks |-> Len(parsed), warnings |-> <<>>]
  ELSE ApplyLoopStep(buffer, offset, parsed, applied,
                     applyHunk(buffer, parsed[applied + 1], offset))

\* applyCodeDiff once parseDiff has returned: lines 65-132
ApplyParsed(original, parseResult) ==
  IF ~parseResult.success
  THEN [success |-> FALSE, error |-> parseResult.error,
        appliedHunks |-> 0, totalHunks |-> 0, warnings |-> <<>>]
  ELSE IF Len(parseResult.hunks) = 0
       THEN [success |-> FALSE, error |-> "No valid hunks found in diff",
             appliedHunks |-> 0, totalHunks |-> 0, warnings |-> <<>>]
       ELSE ApplyLoop(Split(original), 0, parseResult.hunks, 0)

applyCodeDiff(original, diff) == ApplyParsed(original, parseDiff(diff))

\* ------------------------------------------------------------------------
\* Vocabulary of the properties
\* ------------------------------------------------------------------------

Done == pc = "done"

\* applyCodeDiff returned from inside the hunk loop with a failure
LoopFailure == Done /\ Len(hunks) > 0 /\ ~result.success

\* the lines of a hunk that stand for lines of the old text, in hunk order
Anchors(hunkLines) == SelectSeq(hunkLines, LAMBDA l : l.type # "add")

\* at a loop failure: the hunk that failed, the 0-based index it was placed
\* at, and its context and remove lines (the buffer is resultLines, which the
\* failing iteration leaves as it found it)
FailedHunk == hunks[appliedHunks + 1]
FailedStart == FailedHunk.oldStart + lineOffset - 1
FailedContext == Anchors(FailedHunk.lines)

\* the hunk about to be applied inside the loop, and its placement
NextHunk == hunks[appliedHunks + 1]
NextStart == NextHunk.oldStart + lineOffset - 1

\* a hunk is about to be applied
HunkPending == pc = "apply" /\ appliedHunks < Len(hunks)

\* a hunk is about to be applied, or was the last one tried and failed; in
\* both cases it is FailedHunk, to be placed at FailedStart of resultLines
HunkAtHand == HunkPending \/ LoopFailure

\* what applyHunk makes of the hunk at hand
Outcome == applyHunk(resultLines, FailedHunk, lineOffset)

StartInside(start, buffer) == 0 <= start /\ start < Len(buffer)

\* the entries k of cl whose position start+k-1 exists in buffer and holds a
\* line that differs from the entry; Same(a, b) decides "differs"
Mismatches(buffer, cl, start, Same(_, _)) ==
  {k \in 1..Len(cl) : /\ start + k - 1 < Len(buffer)
                      /\ ~Same(buffer[start + k], cl[k].content)}

SameExactly(a, b) == a = b
SameTrimmed(a, b) == Trim(a) = Trim(b)

Least(S) == CHOOSE k \in S : \A j \in S : k <= j

\* the buffer and running delta before hunk j (1-based) of the parsed diff,
\* recomputed from the original text; a hunk that fails leaves both alone
RECURSIVE BufferBefore(_)
BufferAfter(before, hunkResult) ==
  IF hunkResult.success
  THEN [lines |-> hunkResult.newLines, offset |-> before.offset + hunkResult.lineOffset]
  ELSE before

AppliesAt(before, hunk) == applyHunk(before.lines, hunk, before.offset)

BufferBefore(j) ==
  IF j = 1 THEN [lines |-> Split(originalContent), offset |-> 0]
  ELSE BufferAfter(BufferBefore(j - 1), AppliesAt(BufferBefore(j - 1), hunks[j - 1]))

FailureFields == {"success", "error", "appliedHunks", "totalHunks", "warnings"}
SuccessFields == {"success", "newContent", "appliedHunks", "totalHunks", "warnings"}

\* the 1-based numbers of the diff lines that start with "@@"
HeaderLines(lines) == {i \in 1..Len(lines) : StartsWith(lines[i], "@@")}

\* a header line parseHunk rejects: outside the grammar, or over the size guard
Malformed(line) == ~MatchHeader(line).ok
Rejected(line) == ~parseHunk(<<line>>, 0).success

\* ------------------------------------------------------------------------
\* C1 (round trip). For T' obtained from T by one contiguous edit that
\* changes T, applyCodeDiff(T, generateDiff(T, T', path)) succeeds and its
\* newContent is T'.
\* Violated: the generated diff ends with a newline, parseHunk reads the
\* empty string after it as one more context line, and validation then
\* needs a blank line of the file below the hunk.
\* ------------------------------------------------------------------------
C1_RoundTrip ==
  (Done /\ diffSource = "generated" /\ newContent # originalContent)
    => (result.success /\ result.newContent = newContent)

\* ------------------------------------------------------------------------
\* C2 (context sensitivity), as stated: inside the loop, when the next hunk
\* starts inside the buffer and some context or remove line of it differs
\* from the buffer line it is matched with, the iteration ends the call
\* with a failure carrying the context-mismatch error; and no hunk is ever
\* applied over such a line.
\* Violated: lines are compared after trim(), so " a" is taken for "a".
\* ------------------------------------------------------------------------
MismatchFailure ==
  /\ pc' = "done"
  /\ ~result'.success
  /\ Includes(result'.error, "Context validation failed: Line ")
  /\ Includes(result'.error, "doesn't match expected content")

C3_AllOrNothing ==
  /\ LoopFailure =>
       /\ \A j \in 1..appliedHunks : AppliesAt(BufferBefore(j), hunks[j]).success
       /\ ~AppliesAt(BufferBefore(appliedHunks + 1), FailedHunk).success
       /\ resultLines = BufferBefore(appliedHunks + 1).lines
       /\ result.appliedHunks = appliedHunks
       /\ result.totalHunks = Len(hunks)
       /\ StartsWith(result.error,
                     "Failed to apply hunk " \o ToString(appliedHunks + 1) \o ": ")
       /\ "newContent" \notin DOMAIN result
  /\ (Done /\ result.success) =>
       /\ \A j \in 1..Len(hunks) : AppliesAt(BufferBefore(j), hunks[j]).success
       /\ result.newContent = Join(BufferBefore(Len(hunks) + 1).lines)
       /\ result.appliedHunks = Len(hunks)

\* C3 witness: the second of two hunks failed after the first changed the buffer
C3_Witness ==
  /\ LoopFailure
  /\ appliedHunks = 1
  /\ resultLines # Split(originalContent)
  /\ result.appliedHunks = 1
  /\ result.totalHunks >= 2

\* ------------------------------------------------------------------------
\* C4 (no-op). generateDiff(T, T, path) is exactly the two file-header
\* lines, and applyCodeDiff(T, that diff) returns newContent equal to T.
\* Violated: applyCodeDiff rejects a diff without hunks.
\* ------------------------------------------------------------------------
C4_NoOp ==
  (Done /\ diffSource = "generated" /\ newContent = originalContent)
    => /\ diffString = "--- a/" \o FilePath \o "\n+++ b/" \o FilePath \o "\n"
       /\ result.success
       /\ result.newContent = originalContent

\* ------------------------------------------------------------------------
\* C5 (a result, never an exception). Every call returns: parseDiff and
\* applyHunk have a defined outcome on whatever they are given, so that one
\* of the ways through each stage is taken, and the value returned is a
\* DiffResult that is either a failure with a non-empty error and no
\* newContent or a success with newContent and no error. A diff with a rejected header, a hunk
\* placed outside the buffer and a hunk whose context does not match each
\* end in a failure: a success means the diff parsed and every hunk started
\* inside its buffer with matching context.
\* ------------------------------------------------------------------------
C5_AlwaysAResult ==
  /\ pc = "ready" => parseDiff(diffString).success \in BOOLEAN
  /\ pc = "apply" =>
       /\ appliedHunks <= Len(hunks)
       /\ appliedHunks < Len(hunks) =>
            applyHunk(resultLines, NextHunk, lineOffset).success \in BOOLEAN
  /\ Done =>
       /\ result.success \in BOOLEAN
       /\ result.appliedHunks \in 0..result.totalHunks
       /\ ~result.success => /\ DOMAIN result = FailureFields
                             /\ result.error # ""
       /\ result.success =>
            /\ DOMAIN result = SuccessFields
            /\ \A i \in HeaderLines(Split(diffString)) : ~Rejected(Split(diffString)[i])
            /\ \A j \in 1..Len(hunks) :
                 /\ StartInside(hunks[j].oldStart + BufferBefore(j).offset - 1,
                                BufferBefore(j).lines)
                 /\ validateHunkContext(BufferBefore(j).lines, hunks[j],
                      hunks[j].oldStart + BufferBefore(j).offset - 1).success

\* C5 witness: some call succeeded and some calls failed in each of the
\* three ways; here the one that succeeded with a hunk that changed the text
C5_Witness ==
  /\ Done
  /\ result.success
  /\ result.newContent # originalContent

\* ------------------------------------------------------------------------
\* C6 (the mismatch report). When a hunk starts inside the buffer and one
\* of its context or remove lines differs, after trimming, from the buffer
\* line at its consecutive position, the call fails on the first such line:
\* the error gives that position's 1-based line number, the trimmed text
\* the patch expects and the trimmed text the buffer holds, and
\* appliedHunks counts the hunks before (0 for the first hunk).
\* ------------------------------------------------------------------------
MismatchReport(k, line, expected, actual) ==
  "Failed to apply hunk " \o ToString(k)
    \o ": Context validation failed: Line " \o ToString(line)
    \o " doesn't match expected content. Expected: \"" \o Trim(expected)
    \o "\", Got: \"" \o Trim(actual) \o "\""

FirstMismatch == Least(Mismatches(resultLines, FailedContext, FailedStart, SameTrimmed))

C6_FirstMismatchReported ==
  (/\ HunkAtHand
   /\ StartInside(FailedStart, resultLines)
   /\ Mismatches(resultLines, FailedContext, FailedStart, SameTrimmed) # {})
    => /\ ~Outcome.success
       /\ LoopFailure =>
            /\ result.error = MismatchReport(appliedHunks + 1,
                                 FailedStart + FirstMismatch,
                                 FailedContext[FirstMismatch].content,
                                 resultLines[FailedStart + FirstMismatch])
            /\ result.appliedHunks = appliedHunks

\* C6 witness: the mismatch is not at the hunk's first line, and lines with
\* surrounding white space are involved
C6_Witness ==
  /\ LoopFailure
  /\ StartInside(FailedStart, resultLines)
  /\ Mismatches(resultLines, FailedContext, FailedStart, SameTrimmed) # {}
  /\ FirstMismatch = 2
  /\ resultLines[FailedStart + 1] = " a"
  /\ result.appliedHunks = 0

\* ------------------------------------------------------------------------
\* C7 (out of bounds). A hunk whose start position, oldStart plus the
\* running delta, is below line 1 or beyond the buffer's line count fails
\* with the 'outside file bounds' error, whatever its context lines say,
\* and that error is not the content-mismatch error.
\* ------------------------------------------------------------------------
C7_OutsideBounds ==
  (HunkAtHand /\ ~StartInside(FailedStart, resultLines))
    => /\ ~Outcome.success
       /\ LoopFailure =>
            /\ result.error = "Failed to apply hunk " \o ToString(appliedHunks + 1)
                              \o ": Hunk start line " \o ToString(FailedStart + 1)
                              \o " is outside file bounds (1-"
                              \o ToString(Len(resultLines)) \o ")"
            /\ ~Includes(result.error, "Context validation failed")
            /\ ~Includes(result.error, "doesn't match")

\* C7 witness: a hunk placed beyond the last line whose context line would
\* not have matched any line of the buffer
C7_Witness ==
  /\ LoopFailure
  /\ FailedStart >= Len(resultLines)
  /\ Len(FailedContext) > 0
  /\ \A i \in 1..Len(resultLines) : ~SameTrimmed(resultLines[i], FailedContext[1].content)

\* ------------------------------------------------------------------------
\* C8 (beyond end of file). A hunk that starts inside the buffer, whose
\* context and remove lines all match where the buffer has a line, but
\* number more than the lines left from the start position, fails with
\* 'Hunk extends beyond end of file'.
\* ------------------------------------------------------------------------
C8_BeyondEndOfFile ==
  (/\ HunkAtHand
   /\ StartInside(FailedStart, resultLines)
   /\ Mismatches(resultLines, FailedContext, FailedStart, SameTrimmed) = {}
   /\ Len(FailedContext) > Len(resultLines) - FailedStart)
    => /\ ~Outcome.success
       /\ LoopFailure =>
            result.error = "Failed to apply hunk " \o ToString(appliedHunks + 1)
              \o ": Context validation failed: Hunk extends beyond end of file"

\* C8 witness: two lines were matched before the buffer ran out
C8_Witness ==
  /\ LoopFailure
  /\ StartInside(FailedStart, resultLines)
  /\ Mismatches(resultLines, FailedContext, FailedStart, SameTrimmed) = {}
  /\ Len(resultLines) - FailedStart = 2
  /\ Len(FailedContext) > 2

\* ------------------------------------------------------------------------
\* C9 (no hunk header). On a diff text without a line that starts with
\* "@@", parseDiff succeeds with no hunks and applyCodeDiff fails with 'No
\* valid hunks found in diff', appliedHunks = 0 and totalHunks = 0.
\* ------------------------------------------------------------------------
C9_NoHunkHeader ==
  (Done /\ HeaderLines(Split(diffString)) = {})
    => /\ parseDiff(diffString) = [success |-> TRUE, hunks |-> <<>>]
       /\ result = [success |-> FALSE, error |-> "No valid hunks found in diff",
                    appliedHunks |-> 0, totalHunks |-> 0, warnings |-> <<>>]

\* C9 witness: a diff of body lines only, against a text they would match
C9_Witness ==
  /\ Done
  /\ diffSource = "received"
  /\ HeaderLines(Split(diffString)) = {}
  /\ Len(Split(diffString)) >= 2
  /\ Split(diffString)[1] = "-a"
  /\ originalContent = "a"

\* ------------------------------------------------------------------------
\* C10 (malformed header). When some line of the diff text starts with
\* "@@" and is outside the header grammar, and no header before it is
\* rejected, parseDiff fails with an error naming the 1-based number of the
\* first such line, and applyCodeDiff returns that failure with
\* appliedHunks = 0, totalHunks = 0 and no hunk applied, also when
\* well-formed hunks come first.
\* ------------------------------------------------------------------------
RejectedLines(lines) == {i \in HeaderLines(lines) : Rejected(lines[i])}

MalformedHeaderReported(lines, rejected) ==
  (rejected # {} /\ Malformed(lines[Least(rejected)]))
    => /\ result = [success |-> FALSE,
                    error |-> "Invalid hunk at line " \o ToString(Least(rejected))
                              \o ": Invalid hunk header format: "
                              \o lines[Least(rejected)],
                    appliedHunks |-> 0, totalHunks |-> 0, warnings |-> <<>>]
       /\ appliedHunks = 0
       /\ resultLines = <<>>

C10_MalformedHeader ==
  Done => MalformedHeaderReported(Split(diffString), RejectedLines(Split(diffString)))

\* C10 witness: the malformed header follows a hunk that would have applied
C10_Witness ==
  /\ Done
  /\ originalContent = "a"
  /\ Split(diffString) = <<"@@ -1,1 +1,1 @@", "-a", "@@ -1 @@">>
  /\ ~result.success

\* ------------------------------------------------------------------------
\* Vocabulary of the size and count properties
\* ------------------------------------------------------------------------

\* applyCodeDiff is past parseDiff
Parsed == pc \in {"apply", "done"}

\* the parse failed: no hunk was kept and the call returned a failure
ParseRefused ==
  /\ Done
  /\ ~result.success
  /\ hunks = <<>>
  /\ result.totalHunks = 0
  /\ StartsWith(result.error, "Invalid hunk at line ")

\* a count a header declares: the digits after the comma, 1 without them
Declared(digits) == IF digits = "" THEN 1 ELSE ParseInt(digits)
DeclaredOld(line) == Declared(MatchHeader(line).g2)
DeclaredNew(line) == Declared(MatchHeader(line).g4)

\* the 1-based number of the first line after line i that ends a hunk body,
\* Len(lines) + 1 when the body runs to the end of the input
BodyStop(lines, i) ==
  Least({j \in (i + 1)..(Len(lines) + 1) : j <= Len(lines) => IsBodyEnd(lines[j])})

\* the number of body lines that follow the header at line i
BodyLength(lines, i) == BodyStop(lines, i) - i - 1

\* the header at line i is in the grammar and its hunk is over the size
\* limit, in a declared count or in the lines of its body
Oversize(lines, i) ==
  /\ ~Malformed(lines[i])
  /\ \/ DeclaredOld(lines[i]) > MAX_HUNK_SIZE
     \/ DeclaredNew(lines[i]) > MAX_HUNK_SIZE
     \/ BodyLength(lines, i) > MAX_HUNK_SIZE

\* ------------------------------------------------------------------------
\* C11 (size guard). Whenever some hunk of the diff exceeds 100 lines, in
\* the old or new count its header declares or in the number of lines of
\* its body, the parse fails and with it the call; no hunk that parseDiff
\* accepts declares or holds more than 100 lines.
\* Violated: parseHunk compares only the declared counts with the limit; a
\* body of up to max(oldLines, newLines) + 10 lines is read and accepted.
\* ------------------------------------------------------------------------
OversizeRefused(lines) ==
  (\E i \in HeaderLines(lines) : Oversize(lines, i)) => ParseRefused

C11_SizeGuard ==
  Parsed =>
    /\ OversizeRefused(Split(diffString))
    /\ \A j \in 1..Len(hunks) :
         /\ hunks[j].oldLines <= MAX_HUNK_SIZE
         /\ hunks[j].newLines <= MAX_HUNK_SIZE
         /\ Len(hunks[j].lines) <= MAX_HUNK_SIZE

\* ------------------------------------------------------------------------
\* C12 (header counts are advisory). A call that applied a received diff
\* returns the same content when the counts its headers declare are
\* replaced by any others within the size guard: the call still succeeds,
\* whatever the relation of the counts to the body, and with the same
\* newContent.
\* Violated: parseHunk reads at most max(oldLines, newLines) + 10 body
\* lines, so the declared counts decide how much of a long body is applied.
\* ------------------------------------------------------------------------

\* pairs <<oldCount, newCount>> a header can declare within the size guard
CountPairs == {<<0, 0>>, <<1, 1>>, <<2, MAX_HUNK_SIZE>>, <<MAX_HUNK_SIZE, MAX_HUNK_SIZE>>}

\* the header h with its declared counts replaced by those of c
RecountedHeader(h, m, c) ==
  "@@ -" \o m.g1 \o "," \o ToString(c[1]) \o " +" \o m.g3 \o "," \o ToString(c[2]) \o " @@"

RecountedLine(line, c) ==
  IF StartsWith(line, "@@") /\ MatchHeader(line).ok
  THEN RecountedHeader(line, MatchHeader(line), c)
  ELSE line

\* the diff with every well-formed header declaring the counts c
Recounted(lines, c) == Join([i \in 1..Len(lines) |-> RecountedLine(lines[i], c)])

SameContent(variant, returned) ==
  /\ variant.success
  /\ variant.newContent = returned.newContent

C12_CountsAdvisory ==
  (Done /\ diffSource = "received" /\ result.success)
    => \A c \in CountPairs :
         SameContent(applyCodeDiff(originalContent, Recounted(Split(diffString), c)), result)

\* ------------------------------------------------------------------------
\* Vocabulary of the safety properties
\* ------------------------------------------------------------------------

\* validateDiffSafety has returned
Classified == pc = "classified"

Denylist == {"eval(", "exec(", "rm -rf", "DELETE FROM"}

\* the line holds a substring of the denylist
Denylisted(line) == \E d \in Denylist : Includes(line, d)

\* some line of the raw diff text does
Dangerous(lines) == \E i \in 1..Len(lines) : Denylisted(lines[i])

\* the lines that start with "@@", counted
HunkCount(lines) == Cardinality(HeaderLines(lines))

\* the added and removed lines of the raw text, counted: those that start
\* with "+" or "-" and are no "+++" or "---" file-header line
ChangeCount(lines) ==
  Cardinality({i \in 1..Len(lines) :
                 \/ StartsWith(lines[i], "+") /\ ~StartsWith(lines[i], "+++")
                 \/ StartsWith(lines[i], "-") /\ ~StartsWith(lines[i], "---")})

\* the diff is over a size threshold
Large(lines) == HunkCount(lines) > LargeHunks \/ ChangeCount(lines) > LargeChanges

SizeIssue == "Large diff - consider manual review"

Issues == {safety.issues[i] : i \in 1..Len(safety.issues)}

\* ------------------------------------------------------------------------
\* C13 (denylist). validateDiffSafety returns level 'review' with
\* safe = false exactly when some line of the raw diff text, of whatever
\* kind, holds 'eval(', 'exec(', 'rm -rf' or 'DELETE FROM'; a diff that is
\* also over a size threshold stays at 'review'.
\* ------------------------------------------------------------------------
ReviewOnDenylist(lines) ==
  /\ (safety.level = "review" /\ safety.safe = FALSE) <=> Dangerous(lines)
  /\ (Dangerous(lines) /\ Large(lines)) => safety.level = "review"

C13_ReviewOnDenylist == Classified => ReviewOnDenylist(Split(diffString))

\* C13 witness: the only denylisted line is a context line, in a diff over
\* both size thresholds
DenylistedContextOnly(lines) ==
  /\ \E i \in 1..Len(lines) : Denylisted(lines[i]) /\ StartsWith(lines[i], " ")
  /\ \A i \in 1..Len(lines) : Denylisted(lines[i]) => StartsWith(lines[i], " ")
  /\ HunkCount(lines) > LargeHunks
  /\ ChangeCount(lines) > LargeChanges

C13_Witness ==
  /\ Classified
  /\ DenylistedContextOnly(Split(diffString))
  /\ safety.level = "review"
  /\ SizeIssue \in Issues

\* ------------------------------------------------------------------------
\* C14 (size thresholds). With more than 5 lines that start with "@@" or
\* more than 50 added plus removed lines the level is 'caution' or
\* 'review' and the issues cite the size; with exactly 5 and exactly 50 and
\* no denylisted substring the level is 'safe'.
\* ------------------------------------------------------------------------
CautionWhenLarge(lines) ==
  /\ Large(lines) => /\ safety.level \in {"caution", "review"}
                      /\ SizeIssue \in Issues
  /\ (/\ HunkCount(lines) = LargeHunks
      /\ ChangeCount(lines) = LargeChanges
      /\ ~Dangerous(lines)) => safety.level = "safe"

C14_SizeThresholds == Classified => CautionWhenLarge(Split(diffString))

\* C14 witness: 5 hunks, and 51 changed lines of both kinds
JustOver(lines) ==
  /\ HunkCount(lines) = LargeHunks
  /\ ChangeCount(lines) = LargeChanges + 1
  /\ \E i \in 1..Len(lines) : StartsWith(lines[i], "+")
  /\ \E i \in 1..Len(lines) : StartsWith(lines[i], "-")
  /\ ~Dangerous(lines)

C14_Witness ==
  /\ Classified
  /\ JustOver(Split(diffString))
  /\ safety.level = "caution"

\* ------------------------------------------------------------------------
\* C15 (the flag). In every result of validateDiffSafety, safe is true
\* exactly when level is not 'review'.
\* ------------------------------------------------------------------------
C15_SafeIffNotReview ==
  Classified => /\ safety.level \in {"safe", "caution", "review"}
                /\ safety.safe = (safety.level # "review")

\* C15 witness: a result at level caution, with the flag set
C15_Witness ==
  /\ Classified
  /\ safety.level = "caution"
  /\ safety.safe = TRUE

\* ------------------------------------------------------------------------
\* C16 (the flag at caution). In every result of validateDiffSafety, safe
\* is true only at level 'safe'; at level 'caution' it is false.
\* Violated: safe is level !== 'review', which is true at 'caution'.
\* ------------------------------------------------------------------------
C16_SafeOnlyAtSafe ==
  Classified => /\ safety.safe = TRUE => safety.level = "safe"
                /\ safety.level = "caution" => safety.safe = FALSE

\* ------------------------------------------------------------------------
\* Vocabulary of the generator properties
\* ------------------------------------------------------------------------

\* generateDiff has returned diffString for originalContent and newContent
Generated == diffSource = "generated"

Greatest(S) == CHOOSE k \in S : \A j \in S : j <= k

\* the two texts differ at the 0-based line index i: one of them ends
\* before it and the other does not, or both have a line there and the
\* lines are not the same
DiffersAt(old, new, i) ==
  \/ (i < Len(old)) # (i < Len(new))
  \/ i < Len(old) /\ i < Len(new) /\ old[i + 1] # new[i + 1]

DifferingIndexes(old, new) ==
  {i \in 0..(Max(Len(old), Len(new)) - 1) : DiffersAt(old, new, i)}

\* the first and last index of the span of differing indexes D padded by
\* min(MAX_CONTEXT_LINES, lines available) on each side, the longer text
\* having n lines
PaddedFirst(D) == Least(D) - Min(MAX_CONTEXT_LINES, Least(D))
PaddedLast(D, n) == Greatest(D) + Min(MAX_CONTEXT_LINES, n - 1 - Greatest(D))

\* how many lines of body start with one of the prefixes
Prefixed(body, prefixes) ==
  Cardinality({k \in 1..Len(body) : CharAt(body[k], 1) \in prefixes})

\* the body of a hunk over the indexes first..last: a prefixed line for
\* every line either text has there, a ' ' line for every index without a
\* difference
BodySpans(body, old, new, first, last) ==
  /\ \A k \in 1..Len(body) : CharAt(body[k], 1) \in {" ", "-", "+"}
  /\ Prefixed(body, {" ", "-"}) = Cardinality({i \in first..last : i < Len(old)})
  /\ Prefixed(body, {" ", "+"}) = Cardinality({i \in first..last : i < Len(new)})
  /\ Prefixed(body, {" "}) = Cardinality({i \in first..last : ~DiffersAt(old, new, i)})

\* the hunk at line 3 of the generated diff is the one for the differing
\* indexes D
HunkCovers(lines, old, new, D) ==
  /\ D # {}
  /\ MatchHeader(lines[3]).ok
  /\ MatchHeader(lines[3]).g1 = ToString(PaddedFirst(D) + 1)
  /\ MatchHeader(lines[3]).g3 = ToString(PaddedFirst(D) + 1)
  /\ BodySpans(SubSeq(lines, 4, Len(lines) - 1), old, new,
               PaddedFirst(D), PaddedLast(D, Max(Len(old), Len(new))))

GeneratedShape(lines, old, new) ==
  /\ Len(lines) >= 3
  /\ lines[1] = "--- a/" \o FilePath
  /\ lines[2] = "+++ b/" \o FilePath
  /\ lines[Len(lines)] = ""
  /\ HeaderLines(lines) \subseteq {3}
  /\ HeaderLines(lines) = {3} => HunkCovers(lines, old, new, DifferingIndexes(old, new))

\* ------------------------------------------------------------------------
\* C17 (the generated diff). generateDiff emits the two file-header lines
\* and at most one hunk; an emitted hunk spans the first to the last line
\* index at which the texts differ, padded by min(3, lines available)
\* lines without a difference on each side, its header declares the first
\* padded line (1-based) as the start in both files, and every body line
\* is prefixed ' ', '-' or '+'.
\* Violated: the range of changes is found with a missing line read as an
\* empty one, so a difference that is an empty line against no line does
\* not extend the span.
\* ------------------------------------------------------------------------
C17_GeneratedHunk ==
  Generated => GeneratedShape(Split(diffString), Split(originalContent), Split(newContent))

\* ------------------------------------------------------------------------
\* C18 (a success applied every hunk). When applyCodeDiff succeeds, every
\* hunk of the parsed diff was applied once, in the order of the diff, each
\* to the buffer the hunks before it produced; appliedHunks = totalHunks
\* >= 1 and newContent is the final buffer joined with newlines. In every
\* result 0 <= appliedHunks <= totalHunks.
\* ------------------------------------------------------------------------
CountsInRange(r) == 0 <= r.appliedHunks /\ r.appliedHunks <= r.totalHunks

EveryHunkInOrder(parsed) ==
  /\ hunks = parsed
  /\ \A j \in 1..Len(parsed) : AppliesAt(BufferBefore(j), parsed[j]).success
  /\ resultLines = BufferBefore(Len(parsed) + 1).lines
  /\ lineOffset = BufferBefore(Len(parsed) + 1).offset

SuccessCounts(r, parsed) ==
  /\ r.totalHunks = Len(parsed)
  /\ r.appliedHunks = r.totalHunks
  /\ r.totalHunks >= 1
  /\ r.newContent = Join(resultLines)

C18_SuccessAppliedAll ==
  /\ Done => CountsInRange(result)
  /\ (Done /\ result.success) =>
       /\ EveryHunkInOrder(parseDiff(diffString).hunks)
       /\ SuccessCounts(result, parseDiff(diffString).hunks)

\* C18 witness: a diff of two hunks succeeded, the first of them having
\* changed the number of lines before the second was placed
C18_Witness ==
  /\ Done
  /\ result.success
  /\ result.appliedHunks = 2
  /\ result.totalHunks = 2
  /\ BufferBefore(2).offset # 0
  /\ BufferBefore(3).lines # BufferBefore(2).lines
  /\ result.newContent = Join(BufferBefore(3).lines)

\* ------------------------------------------------------------------------
\* Vocabulary of the properties of one applied hunk
\* ------------------------------------------------------------------------

\* the hunk at hand passes the bounds check and the context validation
HunkValidated == HunkAtHand /\ Outcome.success

\* how many of the first k lines of a hunk stand for lines of the old text
AnchorsBefore(hunkLines, k) ==
  Cardinality({j \in 1..(k - 1) : hunkLines[j].type # "add"})

\* what line k of a hunk placed at the 0-based index start leaves in the
\* result: a context line the buffer line it stands for, an add line its
\* text, a remove line nothing
LeftBy(buffer, start, hunkLines, k) ==
  CASE hunkLines[k].type = "context" -> At(buffer, start + AnchorsBefore(hunkLines, k))
    [] hunkLines[k].type = "add" -> <<hunkLines[k].content>>
    [] hunkLines[k].type = "remove" -> <<>>

\* what the hunk lines lo..hi leave, in hunk order
RECURSIVE LeftByAll(_, _, _, _, _)
LeftByAll(buffer, start, hunkLines, lo, hi) ==
  IF lo > hi THEN <<>>
  ELSE IF lo = hi THEN LeftBy(buffer, start, hunkLines, lo)
       ELSE LeftByAll(buffer, start, hunkLines, lo, (lo + hi) \div 2)
              \o LeftByAll(buffer, start, hunkLines, (lo + hi) \div 2 + 1, hi)

\* the buffer with the old span of the hunk (as many lines from start on as
\* the hunk has context and remove lines) replaced by what the hunk lines
\* leave, in hunk order
SpanReplaced(buffer, start, hunkLines) ==
  SubSeq(buffer, 1, start)
    \o LeftByAll(buffer, start, hunkLines, 1, Len(hunkLines))
    \o SubSeq(buffer, start + Len(Anchors(hunkLines)) + 1, Len(buffer))

\* ------------------------------------------------------------------------
\* C19 (the cursor walk). For every hunk that passes validation, applyHunk
\* returns the buffer with the hunk's old span replaced by the hunk's
\* context lines (as they are in the buffer) and add lines in hunk order,
\* for any mix and order of add, remove and context lines: a context line
\* always advances the cursor.
\* Violated: a context line advances the cursor only while the cursor is
\* below the length the buffer had before the hunk, so after an add line has
\* moved the cursor to that length a context line is not stepped over.
\* ------------------------------------------------------------------------
C19_CursorWalk ==
  HunkValidated => Outcome.newLines = SpanReplaced(resultLines, FailedStart, FailedHunk.lines)

\* how many lines of a hunk are of the given type
LinesOfType(hunkLines, type) ==
  Cardinality({k \in 1..Len(hunkLines) : hunkLines[k].type = type})

\* the walk of applyHunk over the lines lo..hi of a hunk from the state
\* w.st, with w.ok telling whether every remove line so far took exactly
\* one line out of the buffer and one off the delta
WalkStep(w, diffLine, next) ==
  [st |-> next,
   ok |-> /\ w.ok
          /\ diffLine.type = "remove" =>
                /\ Len(next.resultLines) = Len(w.st.resultLines) - 1
                /\ next.linesDelta = w.st.linesDelta - 1]

RECURSIVE WalkChecked(_, _, _, _, _)
WalkChecked(w, hunkLines, lo, hi, originalLen) ==
  IF lo > hi THEN w
  ELSE IF lo = hi
       THEN WalkStep(w, hunkLines[lo], ApplyLine(w.st, hunkLines[lo], originalLen))
       ELSE After(WalkChecked(w, hunkLines, lo, (lo + hi) \div 2, originalLen),
                  LAMBDA half :
                    WalkChecked(half, hunkLines, (lo + hi) \div 2 + 1, hi, originalLen))

\* the walk over the whole hunk placed at start of buffer
WholeWalk(buffer, start, hunkLines) ==
  WalkChecked([st |-> [originalLines |-> buffer, resultLines |-> buffer,
                       originalIndex |-> start, linesDelta |-> 0],
               ok |-> TRUE],
              hunkLines, 1, Len(hunkLines), Len(buffer))

DeltaOf(hunkLines) == LinesOfType(hunkLines, "add") - LinesOfType(hunkLines, "remove")

DeltaIsNetChange(buffer, hunkLines, hunkResult, walk) ==
  /\ hunkResult.lineOffset = DeltaOf(hunkLines)
  /\ hunkResult.lineOffset = Len(hunkResult.newLines) - Len(buffer)
  /\ walk.ok
  /\ walk.st.resultLines = hunkResult.newLines

\* ------------------------------------------------------------------------
\* C20 (the delta). The delta a successful applyHunk returns is the number
\* of add lines minus the number of remove lines of the hunk, and it is the
\* change in the length of the buffer; every remove line of a validated
\* hunk takes exactly one line out of the buffer.
\* ------------------------------------------------------------------------
C20_DeltaIsNetChange ==
  HunkValidated =>
    DeltaIsNetChange(resultLines, FailedHunk.lines, Outcome,
                     WholeWalk(resultLines, FailedStart, FailedHunk.lines))

\* C20 witness: a hunk of two remove lines and one add line was applied and
\* left the buffer one line shorter, with a running delta of -1
C20_Witness ==
  /\ Done
  /\ result.success
  /\ Len(hunks) = 1
  /\ LinesOfType(hunks[1].lines, "remove") = 2
  /\ LinesOfType(hunks[1].lines, "add") = 1
  /\ lineOffset = -1
  /\ Len(resultLines) = Len(Split(originalContent)) - 1

\* ------------------------------------------------------------------------
\* Vocabulary of the properties of a diff of several hunks
\* ------------------------------------------------------------------------

\* the 0-based index of the original text a hunk declares as its start,
\* and the index after the last line of its old span
SpanStart(hunk) == hunk.oldStart - 1
SpanEnd(hunk) == hunk.oldStart - 1 + Len(Anchors(hunk.lines))

\* the hunks hs have old spans inside a text of n lines, listed in
\* ascending order without overlap
Ascending(hs, n) ==
  /\ \A j \in 1..Len(hs) : 0 <= SpanStart(hs[j]) /\ SpanEnd(hs[j]) <= n
  /\ \A j \in 1..(Len(hs) - 1) : SpanEnd(hs[j]) <= SpanStart(hs[j + 1])

\* the hunks 1..j of hs applied to the original text all at once: every
\* old span, taken where the hunk declares it in the original, is replaced
\* by what the hunk leaves (the later spans first, which moves no earlier one)
RECURSIVE Simultaneously(_, _, _)
Simultaneously(original, hs, j) ==
  IF j = 0 THEN original
  ELSE Simultaneously(SpanReplaced(original, SpanStart(hs[j]), hs[j].lines), hs, j - 1)

\* the sum of the deltas of the hunks 1..j of hs
RECURSIVE DeltaSum(_, _)
DeltaSum(hs, j) == IF j = 0 THEN 0 ELSE DeltaSum(hs, j - 1) + DeltaOf(hs[j].lines)

\* the hunk at hand is placed at its declared start moved by the deltas of
\* the hunks before it
PlacedByDeltas ==
  /\ lineOffset = DeltaSum(hunks, appliedHunks)
  /\ Outcome = ApplyHunkAt(resultLines, FailedHunk,
                           SpanStart(FailedHunk) + DeltaSum(hunks, appliedHunks))

\* ------------------------------------------------------------------------
\* C21 (sequential is simultaneous). For a diff whose hunks carry starts
\* relative to the original text, in ascending order and without overlap,
\* each hunk is validated and applied at index oldStart - 1 + (sum of the
\* deltas of the hunks before it) of the current buffer, and the content a
\* success returns is the original text with all the hunks applied to it
\* at once.
\* Violated: a hunk whose context line is not stepped over (the cursor
\* being at the length of the buffer) is applied in another order than its
\* lines have, so the content is not the one the hunks describe.
\* ------------------------------------------------------------------------
C21_SequentialIsSimultaneous ==
  /\ (HunkAtHand /\ Ascending(hunks, Len(Split(originalContent)))) => PlacedByDeltas
  /\ (Done /\ result.success /\ Ascending(hunks, Len(Split(originalContent)))) =>
       result.newContent = Join(Simultaneously(Split(originalContent), hunks, Len(hunks)))

\* ------------------------------------------------------------------------
\* Vocabulary of the properties of the hunk parser
\* ------------------------------------------------------------------------

\* parseDiff returned hunks: applyCodeDiff went into the hunk loop
HunksParsed == Parsed /\ Len(hunks) > 0

\* the 1-based number of the j-th line that starts with "@@"
NthHeader(lines, j) ==
  CHOOSE i \in HeaderLines(lines) :
    Cardinality({h \in HeaderLines(lines) : h < i}) = j - 1

\* the hunk read at the header in line i has for its body every line up to
\* the first that ends a body, and parseHunk returns the 0-based index of
\* that line
BodyUpToMarker(lines, i, hunk) ==
  /\ Len(hunk.lines) = BodyLength(lines, i)
  /\ parseHunk(lines, i - 1).success
  /\ parseHunk(lines, i - 1).hunk = hunk
  /\ parseHunk(lines, i - 1).nextIndex = BodyStop(lines, i) - 1

BodiesUpToMarkers(lines) ==
  /\ Len(hunks) = Cardinality(HeaderLines(lines))
  /\ \A j \in 1..Len(hunks) : BodyUpToMarker(lines, NthHeader(lines, j), hunks[j])

\* ------------------------------------------------------------------------
\* C22 (where a body ends). The body of a parsed hunk is every line after
\* its header up to, and not including, the first following line that starts
\* with '@@', '---' or '+++', or up to the end of the input; nothing else
\* ends a body, and the next index parseHunk returns is the index of that
\* line (or the length of the input).
\* Violated: the loop also stops after max(oldLines, newLines) + 10 body
\* lines, and the next index is then that of an unread body line.
\* ------------------------------------------------------------------------
C22_BodyEndsAtMarker ==
  HunksParsed => BodiesUpToMarkers(Split(diffString))

\* the DiffLine a body line gives by its first character
ByFirstCharacter(line) ==
  CASE line # "" /\ CharAt(line, 1) = " " -> [type |-> "context", content |-> SubSeq(line, 2, Len(line))]
    [] line # "" /\ CharAt(line, 1) = "-" -> [type |-> "remove", content |-> SubSeq(line, 2, Len(line))]
    [] line # "" /\ CharAt(line, 1) = "+" -> [type |-> "add", content |-> SubSeq(line, 2, Len(line))]
    [] OTHER -> [type |-> "context", content |-> line]

\* line k of the hunk read at the header in line i is what the k-th line
\* after the header gives
ClassifiedInOrder(lines, i, hunk) ==
  \A k \in 1..Len(hunk.lines) :
    /\ i + k <= Len(lines)
    /\ hunk.lines[k] = ByFirstCharacter(lines[i + k])

\* ------------------------------------------------------------------------
\* C23 (body lines). Each body line of a hunk is classified by its first
\* character only: ' ' gives a context line, '-' a remove line, '+' an add
\* line, each with the rest of the line as content; an empty line or a line
\* that starts with any other character gives a context line whose content
\* is the whole line; the lines of the hunk are in the order of the body.
\* ------------------------------------------------------------------------
C23_ClassifiedByFirstCharacter ==
  HunksParsed =>
    \A j \in 1..Len(hunks) :
      ClassifiedInOrder(Split(diffString), NthHeader(Split(diffString), j), hunks[j])

\* C23 witness: a hunk was read whose body holds a line without a prefix
\* between a remove line and an add line, and another whose body holds an
\* empty line
C23_Witness ==
  /\ HunksParsed
  /\ \/ /\ diffString = "@@ -1,1 +1,1 @@\n-a\na\n+b"
        /\ hunks[1].lines = <<[type |-> "remove", content |-> "a"],
                              [type |-> "context", content |-> "a"],
                              [type |-> "add", content |-> "b"]>>
     \/ /\ diffString = "@@ -1,1 +1,1 @@\n a\n"
        /\ hunks[1].lines = <<[type |-> "context", content |-> "a"],
                              [type |-> "context", content |-> ""]>>

\* the range "a,b" of a header, or "a" without the count
RangeText(start, count, counted) ==
  IF counted THEN ToString(start) \o "," \o ToString(count) ELSE ToString(start)

\* the header '@@ -a[,b] +c[,d] @@' that declares the fields of hunk, each
\* count written or left out
HeaderText(hunk, oldCounted, newCounted) ==
  "@@ -" \o RangeText(hunk.oldStart, hunk.oldLines, oldCounted)
    \o " +" \o RangeText(hunk.newStart, hunk.newLines, newCounted) \o " @@"

\* line declares the fields of hunk: a count that is left out is 1
Declares(line, hunk) ==
  \E oldCounted, newCounted \in BOOLEAN :
    /\ line = HeaderText(hunk, oldCounted, newCounted)
    /\ ~oldCounted => hunk.oldLines = 1
    /\ ~newCounted => hunk.newLines = 1

\* how many numbers (runs of digits) a line holds; a header of the grammar
\* holds two at least
NumbersIn(line) ==
  Cardinality({i \in 1..Len(line) :
                 /\ CharAt(line, i) \in Digits
                 /\ i > 1 => CharAt(line, i - 1) \notin Digits})

HeaderRefused(lines, i) ==
  parseHunk(lines, i - 1) =
    [success |-> FALSE, error |-> "Invalid hunk header format: " \o lines[i]]

\* ------------------------------------------------------------------------
\* C24 (header fields). For a header line '@@ -a[,b] +c[,d] @@' parseHunk
\* yields oldStart = a and newStart = c, oldCount = b and newCount = d when
\* they are written (an explicit 0 stays 0) and 1 when the ',count' part is
\* left out; a line that starts with '@@' and is outside the grammar fails
\* with an 'Invalid hunk header format' error that quotes the line.
\* ------------------------------------------------------------------------
HeaderFields(lines) ==
  /\ HunksParsed =>
       \A j \in 1..Len(hunks) : Declares(lines[NthHeader(lines, j)], hunks[j])
  /\ diffSource # "none" =>
       \A i \in HeaderLines(lines) : NumbersIn(lines[i]) < 2 => HeaderRefused(lines, i)

C24_HeaderFields == HeaderFields(Split(diffString))

\* C24 witness: the header '@@ -2,0 +3 @@' was read as oldStart 2 with an
\* explicit count of 0 and newStart 3 with the default count of 1
C24_Witness ==
  /\ HunksParsed
  /\ Split(diffString)[1] = "@@ -2,0 +3 @@"
  /\ hunks[1].oldStart = 2
  /\ hunks[1].oldLines = 0
  /\ hunks[1].newStart = 3
  /\ hunks[1].newLines = 1

\* ------------------------------------------------------------------------
\* Vocabulary of the frame properties
\* ------------------------------------------------------------------------

\* after is before with the n lines from the 0-based index start on
\* replaced by some lines: the lines ahead of them and the lines behind
\* them are the same, in the same places counted from either end
SameOutside(before, after, start, n) ==
  /\ Len(after) >= Len(before) - n
  /\ SubSeq(after, 1, start) = SubSeq(before, 1, start)
  /\ SubSeq(after, Len(after) - (Len(before) - start - n) + 1, Len(after))
       = SubSeq(before, start + n + 1, Len(before))

\* the 0-based index p of the original text lies in no old span of hs
OutsideSpans(hs, p) == \A j \in 1..Len(hs) : ~(SpanStart(hs[j]) <= p /\ p < SpanEnd(hs[j]))

\* where line p of the original is after the hunks hs: moved by the deltas
\* of the hunks whose old span ends at or before it
MovedTo(hs, p) ==
  p + DeltaSum([j \in 1..Len(hs) |->
                  IF SpanEnd(hs[j]) <= p THEN hs[j] ELSE [lines |-> <<>>]], Len(hs))

\* every line of original outside the old spans is in final, where the
\* hunks before it moved it
KeptOutsideSpans(original, final, hs) ==
  \A p \in 0..(Len(original) - 1) :
    OutsideSpans(hs, p) =>
      /\ MovedTo(hs, p) < Len(final)
      /\ final[MovedTo(hs, p) + 1] = original[p + 1]

\* ------------------------------------------------------------------------
\* C25 (frame). A successful applyCodeDiff leaves every line of the
\* original outside the old spans of its hunks unchanged and in the same
\* relative order: every hunk leaves the lines before its start and the
\* lines after its last context or remove line as they are, and after a
\* diff of ascending hunks every line outside the spans is found where the
\* deltas of the hunks before it moved it. applyHunk works on a copy: the
\* buffer it is given is the same after the walk.
\* ------------------------------------------------------------------------
FrameOfHunk(buffer, start, hunk, hunkResult, walk) ==
  /\ SameOutside(buffer, hunkResult.newLines, start, Len(Anchors(hunk.lines)))
  /\ walk.st.originalLines = buffer
  /\ walk.st.resultLines = hunkResult.newLines

C25_Frame ==
  /\ HunkValidated =>
       FrameOfHunk(resultLines, FailedStart, FailedHunk, Outcome,
                   WholeWalk(resultLines, FailedStart, FailedHunk.lines))
  /\ (Done /\ result.success /\ Ascending(hunks, Len(Split(originalContent)))) =>
       KeptOutsideSpans(Split(originalContent), Split(result.newContent), hunks)

\* C25 witness: two hunks were applied to a text of two lines, the first
\* adding a line ahead of line 1 and the second one ahead of line 2, and both
\* lines of the text are in the result, moved by one
C25_Witness ==
  /\ Done
  /\ result.success
  /\ Len(hunks) = 2
  /\ Ascending(hunks, Len(Split(originalContent)))
  /\ Len(Split(originalContent)) = 2
  /\ OutsideSpans(hunks, 0)
  /\ OutsideSpans(hunks, 1)
  /\ MovedTo(hunks, 0) = 1
  /\ Len(Split(result.newContent)) = 4

\* ------------------------------------------------------------------------
\* Vocabulary of the properties of the whole call
\* ------------------------------------------------------------------------

\* two results of applyCodeDiff agree in the success flag and the content
SameOutcome(r1, r2) ==
  /\ r1.success = r2.success
  /\ r1.success => r1.newContent = r2.newContent

EndsWithNewline(s) == Len(s) > 0 /\ CharAt(s, Len(s)) = "\n"

\* ------------------------------------------------------------------------
\* C26 (trailing newline). The outcome of applyCodeDiff, success flag and
\* content, is the same whether or not the diff text ends with a newline:
\* the empty string after the final newline is not a line of the last hunk
\* that must match the text.
\* Violated: the empty string is read as a context line of the last hunk,
\* and validation fails where the text has no empty line for it.
\* ------------------------------------------------------------------------
C26_TrailingNewline ==
  (Done /\ diffString # "" /\ ~EndsWithNewline(diffString)) =>
    SameOutcome(result, applyCodeDiff(originalContent, diffString \o "\n"))

\* ------------------------------------------------------------------------
\* C27 (header-only exactly for equal texts). generateDiff returns the diff
\* of the two file-header lines and no '@@' line if and only if the two
\* texts are equal; whenever they differ, also when they differ only by
\* empty lines at the end, a hunk is emitted.
\* Violated: the texts are compared line by line with a missing line read
\* as an empty one, so a text and the same text with empty lines added at
\* its end give the header-only diff.
\* ------------------------------------------------------------------------
C27_HeaderOnlyIffEqual ==
  Generated => (HeaderLines(Split(diffString)) = {} <=> originalContent = newContent)

\* ------------------------------------------------------------------------
\* Vocabulary of the order of the issues
\* ------------------------------------------------------------------------

ExecutionIssue == "Contains potentially dangerous code execution"
DestructionIssue == "Contains potentially destructive operations"

\* the issues a line triggers: one for the substrings of code execution,
\* one for those of destruction
IssuesOfLine(line) ==
  (IF Includes(line, "eval(") \/ Includes(line, "exec(") THEN <<ExecutionIssue>> ELSE <<>>)
    \o (IF Includes(line, "rm -rf") \/ Includes(line, "DELETE FROM")
        THEN <<DestructionIssue>> ELSE <<>>)

\* the issues the lines lo..hi trigger, in the order of the lines
RECURSIVE IssuesOfLines(_, _, _)
IssuesOfLines(lines, lo, hi) ==
  IF lo > hi THEN <<>>
  ELSE IF lo = hi THEN IssuesOfLine(lines[lo])
       ELSE IssuesOfLines(lines, lo, (lo + hi) \div 2)
              \o IssuesOfLines(lines, (lo + hi) \div 2 + 1, hi)

IssuesInOrder(lines) ==
  safety.issues = IssuesOfLines(lines, 1, Len(lines))
                    \o (IF Large(lines) THEN <<SizeIssue>> ELSE <<>>)

\* ------------------------------------------------------------------------
\* C28 (issues). In every result of validateDiffSafety the level is 'safe'
\* if and only if the list of issues is empty; the issues about denylisted
\* substrings are in the order of the lines that triggered them, and the
\* size issue is there once at most, after them.
\* ------------------------------------------------------------------------
C28_IssuesInOrder ==
  Classified =>
    /\ safety.level = "safe" <=> safety.issues = <<>>
    /\ IssuesInOrder(Split(diffString))

\* C28 witness: a large diff in which a line of destruction comes before a
\* line of code execution
C28_Witness ==
  /\ Classified
  /\ safety.issues = <<DestructionIssue, ExecutionIssue, SizeIssue>>
  /\ safety.level = "review"

\* ------------------------------------------------------------------------
\* Vocabulary of termination
\* ------------------------------------------------------------------------

\* applyCodeDiff was called and has not returned
Called == pc \in {"ready", "apply"}

\* parseHunk, where it succeeds on the header in line i (1-based), returns
\* a next index behind the 0-based index i - 1 of the header and inside or
\* at the end of the input
HunkMovesOn(lines, i, hunkResult) ==
  hunkResult.success =>
    /\ hunkResult.nextIndex > i - 1
    /\ hunkResult.nextIndex <= Len(lines)

ParseMovesOn(lines) ==
  \A i \in HeaderLines(lines) : HunkMovesOn(lines, i, parseHunk(lines, i - 1))

\* the state the while loop of applyHunk ends in for the hunk lines placed
\* at start of buffer
WalkEnd(buffer, start, hunkLines) ==
  ApplyLinesFrom([originalLines |-> buffer, resultLines |-> buffer,
                  originalIndex |-> start, hunkIndex |-> 0, linesDelta |-> 0],
                 hunkLines, 1, Len(hunkLines), Len(buffer))

\* the loop took one step for each line of the hunk at hand
OneStepPerLine ==
  WalkEnd(resultLines, FailedStart, FailedHunk.lines).hunkIndex = Len(FailedHunk.lines)

Progress ==
  /\ diffSource # "none" => ParseMovesOn(Split(diffString))
  /\ HunkValidated => OneStepPerLine

\* ------------------------------------------------------------------------
\* C29 (termination). applyCodeDiff returns on every input: a call that
\* has begun leads to its return. In parseDiff the line index grows with
\* every iteration, a hunk that parses returning a next index greater than
\* the index of its header, and applyHunk takes exactly one step for each
\* line of the hunk.
\* ------------------------------------------------------------------------
C29_Terminates == [](Progress) /\ (Called ~> Done)

\* C29 witness: a call returned after parseDiff read two hunks, the first
\* with a body, and the loop applied both
C29_Witness ==
  /\ Done
  /\ result.success
  /\ Len(hunks) = 2
  /\ Len(hunks[1].lines) > 0
  /\ parseHunk(Split(diffString), 0).nextIndex = 1 + Len(hunks[1].lines)
  /\ appliedHunks = 2

\* ------------------------------------------------------------------------
\* Vocabulary of the warnings
\* ------------------------------------------------------------------------

\* the call returned a failure before the hunk loop: the parse failed or
\* the diff holds no hunk
FailedBeforeLoop == Done /\ ~result.success /\ hunks = <<>>

\* some warning of the result carries the error of the hunk that ended
\* the call
FatalAsWarning ==
  \E k \in 1..Len(result.warnings) : Includes(result.warnings[k], Outcome.error)

\* ------------------------------------------------------------------------
\* C30 (warnings are not fatal). The warnings of a result hold non-fatal
\* findings only: the list is empty on every parse failure and on the
\* failure for a diff without hunks, and a failure never carries among its
\* warnings the hunk failure that ended the call.
\* Violated: the failing iteration pushes 'Hunk <n> failed: <error>' onto
\* the warnings before it returns the failure.
\* ------------------------------------------------------------------------
C30_WarningsNonFatal ==
  /\ FailedBeforeLoop => result.warnings = <<>>
  /\ LoopFailure => ~FatalAsWarning

====
